---------------------------- MODULE Spec2Model ----------------------------
(***************************************************************************)
(* A model of the nested call stack of the learn-revm teaching EVM:        *)
(*   stage2-architecture/src/evm/call_stack.rs                             *)
(*     CallFrame   - one call's context                                    *)
(*     CallStack   - the frame stack with its depth counter and limit      *)
(*     CallManager - CallStack + per-depth journal of state changes,       *)
(*                   return-data buffer and event-log list                 *)
(*                                                                         *)
(* The specifications share the variables:                                 *)
(*   SpecStack   - a CallStack driven directly by push_frame, pop_frame    *)
(*                 and rollback_to_depth;                                  *)
(*   Spec        - a CallManager driven by begin_call, end_call,           *)
(*                 record_state_change, add_log, check_permissions and     *)
(*                 handle_call_failure;                                    *)
(*   SpecJournal - the manager under the operations that touch the         *)
(*                 journal: begin_call, record_state_change, end_call,     *)
(*                 handle_call_failure;                                    *)
(*   SpecLogs    - the manager under begin_call, add_log,                  *)
(*                 check_permissions, end_call, handle_call_failure;       *)
(*   SpecManager - the manager under begin_call, end_call,                 *)
(*                 record_state_change and add_log;                        *)
(*   SpecEngine  - the EVM engine (evm/engine.rs) under transact, over an  *)
(*                 InMemoryDB backend;                                     *)
(*   SpecBackend - an InMemoryDB (database/memory.rs) under commit and the *)
(*                 reads of storage;                                       *)
(*   SpecMachine - a Machine (evm/engine.rs) under push, pop and use_gas;  *)
(*   SpecMemory  - a Machine under expand_memory, memory_read and          *)
(*                 memory_write, in a build with and in a build without    *)
(*                 overflow checks;                                        *)
(*   SpecSimpleMemory - a SimpleMemory of stage1-stack-machine             *)
(*                 (practice2_memory_ops.rs, practice4_gas_calculation.rs) *)
(*                 under store and expand_to, and its gas functions        *)
(*                 applied to sizes;                                       *)
(*   SpecJump    - a JumpEVM (practice3_jump_safety.rs) or a CompleteEVM   *)
(*                 (practice5_complete_sequence.rs) stepping through a     *)
(*                 program of pushes, jumps and jump destinations;         *)
(*   SpecArith   - a SimpleEVM (practice1_stack_basics.rs) or a            *)
(*                 CompleteEVM stepping through pushes and additions;      *)
(*   SpecLoadStore - a MemoryEVM (practice2_memory_ops.rs) or a            *)
(*                 CompleteEVM stepping through stores and loads;          *)
(*   SpecGasEVM  - a GasEVM (practice4_gas_calculation.rs) stepping        *)
(*                 through stores and loads;                               *)
(*   SpecGas     - the gas counters of a GasEVM, a CompleteEVM and a       *)
(*                 CallFrame under consume_gas and remaining_gas;          *)
(*   SpecRun     - JumpEVM::run and CompleteEVM::run, whose loops call     *)
(*                 step until it stops: SpecJump's steps under weak        *)
(*                 fairness.                                               *)
(***************************************************************************)
EXTENDS Integers, Sequences, FiniteSets

(***************************************************************************)
(* Bounds of the model.                                                    *)
(***************************************************************************)
\* The limit handed to CallStack::new / CallManager::new (max_depth).
MaxDepth == 2
\* The longest init code or call data of a transaction, next to the lengths
\* around the profile's MAX_CODE_SIZE.
MaxDataLen == 2
\* transact is called while the backend's access log is shorter than this.
MaxAccessLog == 2
\* The longest change list handed to commit, and how many times one
\* behaviour calls commit.
MaxChanges == 2
MaxCommits == 1
\* The bytes of memory a Machine can get: a larger allocation aborts.
MaxMemory == 64
\* A Machine's push is called while the stack holds fewer entries than this,
\* or is at most this many entries short of 1024.
MaxStack == 2
\* The most gas a Machine starts with.
MaxGas == 2
\* The longest program of jumps handed to an interpreter, and the gas limit
\* of a CompleteEVM that runs it.
MaxJumpProgram == 3
JumpGas == 40
\* The longest program of pushes, arithmetic and memory instructions, and the
\* gas limit of a CompleteEVM that runs a program of pushes and additions.
MaxProgram == 4
ArithGas == 12
\* The longest program of stores and loads, and the gas limit of a
\* CompleteEVM that runs it.
MaxMemoryProgram == 5
MemoryGas == 20
\* The gas limits of a GasEVM: one that pays for two pushes and the base
\* price of one more instruction, and one that pays for a whole program.
LowGas == 10
HighGas == 100
\* consume_gas is called on a CallFrame that has used at most this much gas.
MaxUsed == 3
\* A run that has wrapped its gas counter is followed for this many more
\* steps.
MaxRunSteps == 6
\* How many state changes and logs together one behaviour hands to the
\* manager; each gets the next serial number, so that an entry found in a
\* journal bucket or in the log list can be traced to the call that made it.
MaxSerial == 2
\* The gas_limit given to every frame that is constructed.
FrameGas == 2

(***************************************************************************)
(* CallType (call_stack.rs 47-61) and the addresses the frames are built   *)
(* from.  Address 0 is Address::zero().                                    *)
(***************************************************************************)
CallType == {"Call", "CallCode", "DelegateCall", "StaticCall", "Create", "Create2"}

ZeroAddress == 0
User == 1
Target == 2
CodeHolder == 3

(***************************************************************************)
(* CallFrame and its constructors.  The fields value, data and             *)
(* return_data_offset / return_data_size are carried by the Rust struct    *)
(* but read by no operation of CallStack or CallManager; they are left     *)
(* out of the record.                                                      *)
(***************************************************************************)
new_call(caller, to, gas_limit, call_type, depth) ==
    [caller       |-> caller,
     code_address |-> to,
     to_address   |-> to,
     gas_limit    |-> gas_limit,
     gas_used     |-> 0,
     read_only    |-> (call_type = "StaticCall"),
     call_type    |-> call_type,
     depth        |-> depth]

new_delegate_call(caller, code_address, to_address, gas_limit, depth) ==
    [caller       |-> caller,
     code_address |-> code_address,
     to_address   |-> to_address,
     gas_limit    |-> gas_limit,
     gas_used     |-> 0,
     read_only    |-> FALSE,
     call_type    |-> "DelegateCall",
     depth        |-> depth]

new_create(caller, gas_limit, create_type, depth) ==
    [caller       |-> caller,
     code_address |-> ZeroAddress,
     to_address   |-> ZeroAddress,
     gas_limit    |-> gas_limit,
     gas_used     |-> 0,
     read_only    |-> FALSE,
     call_type    |-> create_type,
     depth        |-> depth]

\* The frames a caller hands to push_frame / begin_call.  The depth argument
\* of the constructors is the caller's to choose: every value 0..MaxDepth.
DepthInputs == 0..MaxDepth

FrameInputs ==
    UNION {
        {new_call(User, Target, FrameGas, ct, d) : ct \in {"Call", "StaticCall"}}
        \cup {new_delegate_call(User, CodeHolder, Target, FrameGas, d)}
        \cup {new_create(User, FrameGas, "Create", d)}
        : d \in DepthInputs }

\* The frames handed to begin_call: an ordinary, a read-only and a
\* context-delegating call.
CallInputs == {f \in FrameInputs : f.call_type # "Create"}

(***************************************************************************)
(* State.                                                                  *)
(***************************************************************************)
VARIABLES
    stack,          \* CallStack: [frames, current_depth, max_depth]
    return_data,    \* CallManager.return_data
    state_changes,  \* CallManager.state_changes: depth -> list of changes
    logs,           \* CallManager.logs
    last,           \* the last call made on the object and what it returned
    serial,         \* number of state changes and logs handed in so far
    opened,         \* history, one entry per frame on the stack: the serials
                    \* of the changes that frame recorded and of the logs
                    \* added while it was open
    failed,         \* history: the changes and logs of the frames that ended
                    \* with success = false or were unwound
    prev,           \* history: the call made on a CallStack before the last one
    SPEC,           \* EVM: the cost profile the engine was instantiated with
    database,       \* EVM.database: the backend
    machine,        \* EVM.machine
    fault,          \* history: what execute_call / execute_create returned to
                    \* the last transact, "Ok" or the Error that transact prints
    commits,        \* history: how many times commit was called on the backend
    overflow_checks,\* the build: TRUE when integer overflow panics (debug),
                    \* FALSE when it wraps (release)
    trail,          \* history of a Machine's stack: the pushes made since the
                    \* stack was base, and the values popped after them
    simple_memory,  \* a SimpleMemory of practice2 or of practice4
    charged,        \* history: the size the SimpleMemory started with and
                    \* the sum of the gas its calls have returned since
    evm,            \* an interpreter of stage1-stack-machine (SimpleEVM,
                    \* MemoryEVM, JumpEVM, GasEVM or CompleteEVM) inside run
    ledger,         \* history of the interpreter: the value of the last
                    \* completed MSTORE at each offset, and the sum of the
                    \* memory-expansion gas its instructions were charged
    call_frame      \* the gas counters of a CallFrame, as 64-bit numbers

manager == <<return_data, state_changes, logs, serial, opened, failed>>

engine == <<SPEC, database, machine, fault, commits, overflow_checks, trail,
           simple_memory, charged, evm, ledger, call_frame>>

vars == <<stack, return_data, state_changes, logs, last, serial, opened, failed,
          prev, SPEC, database, machine, fault, commits, overflow_checks, trail,
          simple_memory, charged, evm, ledger, call_frame>>

(***************************************************************************)
(* CallStack (call_stack.rs 182-335).  call_history / record_history only  *)
(* feed a debugging printout and are left out.                             *)
(***************************************************************************)
saturating_sub(a, b) == IF a >= b THEN a - b ELSE 0

CallStack_new(max_depth) ==
    [frames |-> <<>>, current_depth |-> 0, max_depth |-> max_depth]

\* push_frame with the limit test off by one (> for >=).
push_frame_past_limit(st, frame) ==
    IF st.current_depth > st.max_depth
    THEN [err |-> "CallDepthExceeded", st |-> st]
    ELSE [err |-> "Ok",
          st  |-> [st EXCEPT
                     !.frames = Append(@, [frame EXCEPT !.depth = st.current_depth]),
                     !.current_depth = @ + 1]]

\* push_frame that keeps the depth the frame was built with.
push_frame_keeps_depth(st, frame) ==
    IF st.current_depth >= st.max_depth
    THEN [err |-> "CallDepthExceeded", st |-> st]
    ELSE [err |-> "Ok",
          st  |-> [st EXCEPT
                     !.frames = Append(@, frame),
                     !.current_depth = @ + 1]]

\* push_frame: [err, st]; err is "Ok" or an Error.
push_frame(st, frame) ==
    IF st.current_depth >= st.max_depth
    THEN [err |-> "CallDepthExceeded", st |-> st]
    ELSE [err |-> "Ok",
          st  |-> [st EXCEPT
                     !.frames = Append(@, [frame EXCEPT !.depth = st.current_depth]),
                     !.current_depth = @ + 1]]

\* pop_frame: [ret, st]; ret is the Option<CallFrame> as a list of 0 or 1 frames.
pop_frame(st) ==
    IF st.frames # <<>>
    THEN [ret |-> <<st.frames[Len(st.frames)]>>,
          st  |-> [st EXCEPT
                     !.frames = SubSeq(@, 1, Len(@) - 1),
                     !.current_depth = saturating_sub(@, 1)]]
    ELSE [ret |-> <<>>, st |-> st]

current_frame(st) ==
    IF st.frames # <<>> THEN <<st.frames[Len(st.frames)]>> ELSE <<>>

depth(st) == st.current_depth

is_empty(st) == st.frames = <<>>

\* rollback_to_depth that hands back the popped frames in push order.
RECURSIVE rollback_to_depth_push_order(_, _)
rollback_to_depth_push_order(st, target_depth) ==
    IF st.current_depth > target_depth /\ st.frames # <<>>
    THEN LET p == pop_frame(st)
             r == rollback_to_depth_push_order(p.st, target_depth)
         IN  [ret |-> r.ret \o p.ret, st |-> r.st]
    ELSE [ret |-> <<>>, st |-> st]

\* rollback_to_depth with an if for the while: at most one frame is popped.
rollback_to_depth_once(st, target_depth) ==
    IF st.current_depth > target_depth /\ st.frames # <<>>
    THEN LET p == pop_frame(st) IN [ret |-> p.ret, st |-> p.st]
    ELSE [ret |-> <<>>, st |-> st]

\* rollback_to_depth that also pops the frame at the target depth.
RECURSIVE rollback_to_depth_inclusive(_, _)
rollback_to_depth_inclusive(st, target_depth) ==
    IF st.current_depth >= target_depth /\ st.frames # <<>>
    THEN LET p == pop_frame(st)
             r == rollback_to_depth_inclusive(p.st, target_depth)
         IN  [ret |-> p.ret \o r.ret, st |-> r.st]
    ELSE [ret |-> <<>>, st |-> st]

\* rollback_to_depth: [ret, st]; ret is the Vec of popped frames, in pop order.
RECURSIVE rollback_to_depth(_, _)
rollback_to_depth(st, target_depth) ==
    IF st.current_depth > target_depth /\ st.frames # <<>>
    THEN LET p == pop_frame(st)
             r == rollback_to_depth(p.st, target_depth)
         IN  [ret |-> p.ret \o r.ret, st |-> r.st]
    ELSE [ret |-> <<>>, st |-> st]

\* is_in_static_context that looks at the top frame only.
is_in_static_context_top_only(st) ==
    st.frames # <<>> /\ st.frames[Len(st.frames)].read_only

is_in_static_context(st) ==
    \E i \in 1..Len(st.frames) : st.frames[i].read_only

(***************************************************************************)
(* The journal map (HashMap<usize, Vec<StateChange>>).                     *)
(***************************************************************************)
map_insert(m, k, v) == [x \in DOMAIN m \cup {k} |-> IF x = k THEN v ELSE m[x]]

map_remove(m, k) == [x \in DOMAIN m \ {k} |-> m[x]]

\* An entry push that replaces the bucket by the new change alone.
map_entry_push_replaces(m, k, v) == map_insert(m, k, <<v>>)

\* state_changes.entry(depth).or_default().push(change)
map_entry_push(m, k, v) ==
    IF k \in DOMAIN m THEN [m EXCEPT ![k] = Append(@, v)]
    ELSE map_insert(m, k, <<v>>)

\* rollback_state_changes that drops the whole journal.
rollback_state_changes_clears_all(m, d) == <<>>

\* rollback_state_changes that leaves the bucket in the map.
rollback_state_changes_kept(m, d) == m

\* rollback_state_changes: the bucket of the depth is taken out of the map
\* (the Rust code only prints what it dropped).
rollback_state_changes(m, d) == map_remove(m, d)

(***************************************************************************)
(* Histories.                                                              *)
(***************************************************************************)
NoHistory == [changes |-> {}, logs |-> {}]

Front(s, n) == SubSeq(s, 1, n)

\* The history entries of the frames popped when the stack shrinks to n frames.
Dropped(n) ==
    [changes |-> UNION {opened[i].changes : i \in (n + 1)..Len(opened)},
     logs    |-> UNION {opened[i].logs : i \in (n + 1)..Len(opened)}]

Called(op, arg, err, ret) == [op |-> op, arg |-> arg, err |-> err, ret |-> ret]

(***************************************************************************)
(* The cost profiles (spec/mod.rs): the constants of the Spec trait that   *)
(* the engine reads.                                                       *)
(***************************************************************************)
\* usize::MAX, Frontier's MAX_CODE_SIZE, as the largest integer of the
\* model: no input length reaches it, as none reaches usize::MAX.
usize_MAX == 2147483647

Berlin ==
    [NAME |-> "Berlin", GAS_CALL |-> 700, GAS_CREATE |-> 32000,
     GAS_CODE_DEPOSIT |-> 200, STACK_LIMIT |-> 1024, MAX_CODE_SIZE |-> 24576]

London ==
    [NAME |-> "London", GAS_CALL |-> 700, GAS_CREATE |-> 32000,
     GAS_CODE_DEPOSIT |-> 200, STACK_LIMIT |-> 1024, MAX_CODE_SIZE |-> 24576]

Frontier ==
    [NAME |-> "Frontier", GAS_CALL |-> 40, GAS_CREATE |-> 32000,
     GAS_CODE_DEPOSIT |-> 200, STACK_LIMIT |-> 1024, MAX_CODE_SIZE |-> usize_MAX]

Profiles == {Berlin, London, Frontier}

(***************************************************************************)
(* Machine (engine.rs 9-85).                                               *)
(***************************************************************************)
Machine_new(gas) ==
    [pc |-> 0, stack |-> <<>>, memory |-> <<>>, return_data |-> <<>>, gas |-> gas]

\* usize addition: the sum modulo usize_MAX + 1, and whether it overflowed.
usize_add(a, b) ==
    IF a <= usize_MAX - b
    THEN [overflow |-> FALSE, val |-> a + b]
    ELSE [overflow |-> TRUE, val |-> a - (usize_MAX - b) - 1]

\* Vec::resize(n, fill).
resize(v, n, fill) ==
    IF n <= Len(v) THEN SubSeq(v, 1, n)
    ELSE v \o [i \in 1..(n - Len(v)) |-> fill]

\* push with the limit test off by one (> for >=).
push_past_limit(m, value) ==
    IF Len(m.stack) > 1024
    THEN [err |-> "StackOverflow", m |-> m]
    ELSE [err |-> "Ok", m |-> [m EXCEPT !.stack = Append(@, value)]]

\* Machine::push: [err, m].
push(m, value) ==
    IF Len(m.stack) >= 1024
    THEN [err |-> "StackOverflow", m |-> m]
    ELSE [err |-> "Ok", m |-> [m EXCEPT !.stack = Append(@, value)]]

\* pop that takes the oldest entry.
pop_oldest(m) ==
    IF m.stack = <<>>
    THEN [err |-> "StackUnderflow", ret |-> <<>>, m |-> m]
    ELSE [err |-> "Ok", ret |-> <<Head(m.stack)>>,
          m   |-> [m EXCEPT !.stack = Tail(@)]]

\* Machine::pop: [err, ret, m]; ret is the value as a list of no or one element.
pop(m) ==
    IF m.stack = <<>>
    THEN [err |-> "StackUnderflow", ret |-> <<>>, m |-> m]
    ELSE [err |-> "Ok", ret |-> <<m.stack[Len(m.stack)]>>,
          m   |-> [m EXCEPT !.stack = SubSeq(@, 1, Len(@) - 1)]]

\* Machine::expand_memory: [err, m].  err is "Ok", "panic" (an overflow with
\* overflow checks on) or "abort" (the allocation failed); the function
\* returns no Error.
expand_memory(m, offset, size, checks) ==
    LET required_size == usize_add(offset, size) IN
    IF required_size.overflow /\ checks THEN [err |-> "panic", m |-> m]
    ELSE IF required_size.val > Len(m.memory)
         THEN LET padded == usize_add(required_size.val, 31)
                  aligned_size == (padded.val \div 32) * 32
              IN  IF padded.overflow /\ checks THEN [err |-> "panic", m |-> m]
                  ELSE IF aligned_size > MaxMemory THEN [err |-> "abort", m |-> m]
                  ELSE [err |-> "Ok",
                        m   |-> [m EXCEPT !.memory = resize(@, aligned_size, 0)]]
         ELSE [err |-> "Ok", m |-> m]

\* Machine::memory_read: [err, ret, m].  A slice whose start is behind its
\* end or whose end is behind the memory panics.
memory_read(m, offset, size, checks) ==
    LET end == usize_add(offset, size) IN
    IF end.overflow /\ checks THEN [err |-> "panic", ret |-> <<>>, m |-> m]
    ELSE IF end.val > Len(m.memory) THEN [err |-> "OutOfMemory", ret |-> <<>>, m |-> m]
    ELSE IF offset > end.val THEN [err |-> "panic", ret |-> <<>>, m |-> m]
    ELSE [err |-> "Ok", ret |-> SubSeq(m.memory, offset + 1, end.val), m |-> m]

\* Machine::memory_write: [err, m].
memory_write(m, offset, data, checks) ==
    LET e == expand_memory(m, offset, Len(data), checks)
        end == usize_add(offset, Len(data))
    IN
    IF e.err # "Ok" THEN e
    ELSE IF offset > end.val \/ end.val > Len(e.m.memory)
         THEN [err |-> "panic", m |-> e.m]
         ELSE [err |-> "Ok",
               m   |-> [e.m EXCEPT !.memory =
                          [i \in 1..Len(@) |->
                              IF offset < i /\ i <= end.val
                              THEN data[i - offset] ELSE @[i]]]]

\* use_gas that debits without looking at what is left.
use_gas_unchecked(m, gas) ==
    [err |-> "Ok", m |-> [m EXCEPT !.gas = @ - gas]]

\* use_gas that takes what gas is left when it fails.
use_gas_drains(m, gas) ==
    IF m.gas < gas
    THEN [err |-> "OutOfGas", m |-> [m EXCEPT !.gas = 0]]
    ELSE [err |-> "Ok", m |-> [m EXCEPT !.gas = @ - gas]]

\* use_gas: [err, m].
use_gas(m, gas) ==
    IF m.gas < gas
    THEN [err |-> "OutOfGas", m |-> m]
    ELSE [err |-> "Ok", m |-> [m EXCEPT !.gas = @ - gas]]

(***************************************************************************)
(* u64 arithmetic of the stage-1 practice programs.  A number is the list  *)
(* of its 16 base-256 digits, least significant first, which holds every   *)
(* sum and product of two u64 exactly; a u64 has its upper 8 digits zero.  *)
(***************************************************************************)
Digits == 16

\* The one element of a singleton: The({F(v) : v \in {e}}) is F(e), with e
\* worked out once.
The(S) == CHOOSE x \in S : TRUE

\* The number n, for n below 2^31.
Big(n) ==
    <<n % 256, (n \div 256) % 256, (n \div 65536) % 256, n \div 16777216,
      0, 0, 0, 0, 0, 0, 0, 0, 0, 0, 0, 0>>

\* 2^k.
Pow2(k) == [i \in 1..Digits |-> IF i = (k \div 8) + 1 THEN 2^(k % 8) ELSE 0]

RECURSIVE Norm(_, _)
\* Carries the excess of every digit into the next one (modulo 256^Len).
Norm(ds, carry) ==
    IF ds = <<>> THEN <<>>
    ELSE LET t == Head(ds) + carry
         IN  <<t % 256>> \o Norm(Tail(ds), t \div 256)

BigAdd(a, b) ==
    The({Norm([i \in 1..Digits |-> x[i] + y[i]], 0) : x \in {a}, y \in {b}})

\* a - b modulo 256^Digits.
BigSub(a, b) ==
    The({Norm([i \in 1..Digits |-> x[i] + 255 - y[i]], 1) : x \in {a}, y \in {b}})

RECURSIVE Column(_, _, _, _)
\* The sum of a[i] * b[k + 1 - i] over the digits i, i - 1, ... of a that meet
\* one of the lower 8 digits of b.
Column(a, b, k, i) ==
    IF i = 0 \/ k + 1 - i > 8 THEN 0
    ELSE a[i] * b[k + 1 - i] + Column(a, b, k, i - 1)

\* a * b, for a and b below 2^64.
BigMul(a, b) ==
    Norm([k \in 1..Digits |-> Column(a, b, k, IF k <= 8 THEN k ELSE 8)], 0)

RECURSIVE DivFrom(_, _, _, _)
DivFrom(a, d, i, rem) ==
    IF i = 0 THEN <<>>
    ELSE LET t == rem * 256 + a[i]
         IN  Append(DivFrom(a, d, i - 1, t % d), t \div d)

\* floor(a / d) for a small divisor d.
BigDiv(a, d) == DivFrom(a, d, Digits, 0)

BigLeq(a, b) ==
    \E x \in {a}, y \in {b} :
       \/ x = y
       \/ \E i \in 1..Digits :
             /\ x[i] < y[i]
             /\ \A j \in (i + 1)..Digits : x[j] = y[j]

Fits64(x) == \E v \in {x} : \A i \in 9..Digits : v[i] = 0

Low64(x) == The({[i \in 1..Digits |-> IF i <= 8 THEN v[i] ELSE 0] : v \in {x}})

\* The u64 operators +, * and -: the value modulo 2^64, and whether the
\* operation overflowed.
u64_add(a, b) ==
    The({[overflow |-> ~Fits64(r), val |-> Low64(r)] : r \in {BigAdd(a, b)}})

u64_mul(a, b) ==
    The({[overflow |-> ~Fits64(r), val |-> Low64(r)] : r \in {BigMul(a, b)}})

u64_sub(a, b) ==
    [overflow |-> ~BigLeq(b, a), val |-> Low64(BigSub(a, b))]

(***************************************************************************)
(* SimpleMemory of practice2_memory_ops.rs and practice4_gas_calculation.rs *)
(* A call returns [err, ret, mem]: err is "Ok", or "panic" when an          *)
(* operation overflowed in a build with overflow checks.  data is the set   *)
(* of the map's <<offset, value>> entries.                                  *)
(***************************************************************************)
SimpleMemory_new(practice) == [practice |-> practice, data |-> {}, size |-> Big(0)]

HashMap_insert(data, key, value) ==
    {e \in data : e[1] # key} \cup {<<key, value>>}

\* practice4 SimpleMemory::memory_cost: [err, ret].
memory_cost(words, checks) ==
    LET linear_cost    == u64_mul(words, Big(3))
        square         == u64_mul(words, words)
        quadratic_cost == BigDiv(square.val, 512)
        total          == u64_add(linear_cost.val, quadratic_cost)
    IN  [err |-> IF checks /\ (linear_cost.overflow \/ square.overflow \/ total.overflow)
                 THEN "panic" ELSE "Ok",
         ret |-> total.val]

\* practice4 SimpleMemory::calculate_memory_expansion_gas: [err, ret].
calculate_memory_expansion_gas(old_size, new_size, checks) ==
    IF BigLeq(new_size, old_size) THEN [err |-> "Ok", ret |-> Big(0)]
    ELSE LET old_padded == u64_add(old_size, Big(31))
             new_padded == u64_add(new_size, Big(31))
             old_words  == BigDiv(old_padded.val, 32)
             new_words  == BigDiv(new_padded.val, 32)
             old_cost   == memory_cost(old_words, checks)
             new_cost   == memory_cost(new_words, checks)
             gas        == u64_sub(new_cost.ret, old_cost.ret)
         IN  [err |-> IF \/ checks /\ (old_padded.overflow \/ new_padded.overflow
                                         \/ gas.overflow)
                         \/ old_cost.err = "panic"
                         \/ new_cost.err = "panic"
                      THEN "panic" ELSE "Ok",
              ret |-> gas.val]

\* practice2 SimpleMemory::calculate_memory_gas: [err, ret].
calculate_memory_gas(old_size, new_size, checks) ==
    IF BigLeq(new_size, old_size) THEN [err |-> "Ok", ret |-> Big(0)]
    ELSE LET old_padded == u64_add(old_size, Big(31))
             new_padded == u64_add(new_size, Big(31))
             old_words  == BigDiv(old_padded.val, 32)
             new_words  == BigDiv(new_padded.val, 32)
             old_linear == u64_mul(old_words, Big(3))
             old_square == u64_mul(old_words, old_words)
             old_cost   == u64_add(old_linear.val, BigDiv(old_square.val, 512))
             new_linear == u64_mul(new_words, Big(3))
             new_square == u64_mul(new_words, new_words)
             new_cost   == u64_add(new_linear.val, BigDiv(new_square.val, 512))
             gas        == u64_sub(new_cost.val, old_cost.val)
         IN  [err |-> IF checks /\ (\/ old_padded.overflow \/ new_padded.overflow
                                    \/ old_linear.overflow \/ old_square.overflow
                                    \/ old_cost.overflow
                                    \/ new_linear.overflow \/ new_square.overflow
                                    \/ new_cost.overflow \/ gas.overflow)
                      THEN "panic" ELSE "Ok",
              ret |-> gas.val]

\* (x + 31) / 32 * 32 in u64.
align32(x) ==
    LET padded == u64_add(x, Big(31))
    IN  [overflow |-> padded.overflow,
         val      |-> BigMul(BigDiv(padded.val, 32), Big(32))]

\* practice4 SimpleMemory::expand_to: [err, ret, mem].
expand_to(mem, new_size, checks) ==
    LET old_size == mem.size
        aligned_size == align32(new_size)
        grown == IF BigLeq(new_size, mem.size) THEN mem
                 ELSE [mem EXCEPT !.size = aligned_size.val]
        gas == calculate_memory_expansion_gas(old_size, grown.size, checks)
    IN  IF ~BigLeq(new_size, mem.size) /\ aligned_size.overflow /\ checks
        THEN [err |-> "panic", ret |-> Big(0), mem |-> [mem EXCEPT !.size = new_size]]
        ELSE [err |-> gas.err, ret |-> gas.ret, mem |-> grown]

\* practice4 SimpleMemory::store: [err, ret, mem].
practice4_store(mem, offset, value, checks) ==
    LET required_size == u64_add(offset, Big(32))
        e == expand_to(mem, required_size.val, checks)
    IN  IF required_size.overflow /\ checks
        THEN [err |-> "panic", ret |-> Big(0), mem |-> mem]
        ELSE IF e.err = "panic" THEN e
        ELSE [err |-> "Ok", ret |-> e.ret,
              mem |-> [e.mem EXCEPT !.data = HashMap_insert(@, offset, value)]]

\* practice2 SimpleMemory::store: [err, ret, mem].
practice2_store(mem, offset, value, checks) ==
    LET required_size == u64_add(offset, Big(32))
        old_size == mem.size
        aligned_size == align32(required_size.val)
        grown == IF BigLeq(required_size.val, mem.size) THEN mem
                 ELSE [mem EXCEPT !.size = aligned_size.val]
        stored == [grown EXCEPT !.data = HashMap_insert(@, offset, value)]
        gas == calculate_memory_gas(old_size, stored.size, checks)
    IN  IF required_size.overflow /\ checks
        THEN [err |-> "panic", ret |-> Big(0), mem |-> mem]
        ELSE IF ~BigLeq(required_size.val, mem.size) /\ aligned_size.overflow /\ checks
        THEN [err |-> "panic", ret |-> Big(0), mem |-> mem]
        ELSE [err |-> gas.err, ret |-> gas.ret, mem |-> stored]

(***************************************************************************)
(* The interpreters of stage1-stack-machine: SimpleEVM (practice1),        *)
(* MemoryEVM (practice2), JumpEVM (practice3), GasEVM (practice4) and      *)
(* CompleteEVM (practice5).  An interpreter is a record; status is         *)
(* "running" while run is in its loop, "stopped" when run has returned     *)
(* Ok, "failed" when it has returned the Err in err, and "panic" when an   *)
(* overflow check has ended the process.  Every u64 is a digit list; usize *)
(* is 64 bits wide.                                                        *)
(***************************************************************************)
\* The one element of a set: The({F(v) : v \in {expr}}) is F(expr) with expr
\* computed once.
Instruction(op) == [op |-> op, value |-> Big(0)]

Instruction_Push(value) == [op |-> "Push", value |-> value]

\* A number below 2^24, as an integer.
IsSmall(x) == \A i \in 4..Digits : x[i] = 0

IntOf(x) == x[1] + 256 * x[2] + 65536 * x[3]

HashMap_get(data, key) ==
    IF \E e \in data : e[1] = key
    THEN (CHOOSE e \in data : e[1] = key)[2]
    ELSE Big(0)

\* practice2 SimpleMemory::load.
practice2_load(mem, offset) ==
    IF BigLeq(mem.size, offset) THEN Big(0) ELSE HashMap_get(mem.data, offset)

\* practice3 JumpValidator::new: the set of the positions of JumpDest.
practice3_JumpValidator_new(instructions) ==
    {pc \in 0..(Len(instructions) - 1) : instructions[pc + 1].op = "JumpDest"}

\* practice3 JumpValidator::is_valid_destination.
practice3_is_valid_destination(valid_destinations, pc) ==
    IsSmall(pc) /\ IntOf(pc) \in valid_destinations

EVM_new(kind, instructions, gas_limit) ==
    [kind         |-> kind,
     instructions |-> instructions,
     validator    |-> <<>>,
     pc           |-> 0,
     stack        |-> <<>>,
     memory       |-> SimpleMemory_new(kind),
     storage      |-> {},
     gas_used     |-> Big(0),
     gas_limit    |-> gas_limit,
     step_count   |-> Big(0),
     steps        |-> 0,
     status       |-> "running",
     err          |-> "Ok"]

\* Ok(false), Err(msg) and a panic out of step.
Halt(e) == [e EXCEPT !.status = "stopped"]

Fail(e, msg) == [e EXCEPT !.status = "failed", !.err = msg]

Crash(e) == [e EXCEPT !.status = "panic", !.err = "panic"]

\* The statements of a match arm, each skipped once the arm has returned.
\* SimpleStack::push with the stack's limit.
st_push(e, value, limit) ==
    IF e.status # "running" THEN e
    ELSE IF Len(e.stack) >= limit THEN Fail(e, "Stack overflow")
    ELSE [e EXCEPT !.stack = Append(@, value)]

\* SimpleStack::pop.
st_pop(e) ==
    IF e.status # "running" THEN e
    ELSE IF e.stack = <<>> THEN Fail(e, "Stack underflow")
    ELSE [e EXCEPT !.stack = SubSeq(@, 1, Len(@) - 1)]

\* if self.stack.len() < n { return Err(msg) }
st_need(e, n, msg) ==
    IF e.status # "running" THEN e
    ELSE IF Len(e.stack) < n THEN Fail(e, msg)
    ELSE e

\* The k-th entry below the top of the stack (Big(0) where there is none,
\* which a pop that follows reports).
Peek(e, k) == IF Len(e.stack) > k THEN e.stack[Len(e.stack) - k] ELSE Big(0)

\* self.gas_used += gas
add_gas(e, gas, checks) ==
    LET sum == u64_add(e.gas_used, gas) IN
    IF e.status # "running" THEN e
    ELSE IF sum.overflow /\ checks THEN Crash(e)
    ELSE [e EXCEPT !.gas_used = sum.val]

\* self.pc += 1
Advance(e) ==
    IF e.status # "running" THEN e ELSE [e EXCEPT !.pc = @ + 1]

\* practice1 SimpleEVM::new.
SimpleEVM_new(instructions) == EVM_new(1, instructions, Big(0))

\* practice2 MemoryEVM::new.
MemoryEVM_new(instructions) == EVM_new(2, instructions, Big(0))

\* practice3 JumpEVM::new.
JumpEVM_new(instructions) ==
    [EVM_new(3, instructions, Big(0)) EXCEPT
        !.validator = practice3_JumpValidator_new(instructions)]

\* The jump of JumpEVM::step to a popped destination: the validation, the
\* range check and the assignment of pc.
JumpEVM_jump(e, destination) ==
    IF e.status # "running" THEN e
    ELSE IF ~practice3_is_valid_destination(e.validator, destination)
    THEN Fail(e, "Invalid jump destination")
    ELSE IF IntOf(destination) >= Len(e.instructions)
    THEN Fail(e, "Jump destination out of bounds")
    ELSE [e EXCEPT !.pc = IntOf(destination)]

\* practice4 SimpleMemory::load: [err, value, gas]; the memory is not expanded.
practice4_load(mem, offset, checks) ==
    LET required_size == u64_add(offset, Big(32))
        expansion_gas == IF ~BigLeq(required_size.val, mem.size)
                         THEN calculate_memory_expansion_gas(mem.size, required_size.val, checks)
                         ELSE [err |-> "Ok", ret |-> Big(0)]
    IN  IF required_size.overflow /\ checks
        THEN [err |-> "panic", value |-> Big(0), gas |-> Big(0)]
        ELSE [err   |-> expansion_gas.err,
              value |-> HashMap_get(mem.data, offset),
              gas   |-> expansion_gas.ret]

\* practice4 SimpleStorage::sload: [value, gas_cost].
sload(storage, key) == [value |-> HashMap_get(storage, key), gas_cost |-> Big(200)]

\* practice4 SimpleStorage::sstore: [storage, gas_cost].
sstore(storage, key, value) ==
    LET current_value == HashMap_get(storage, key)
        gas_cost == IF current_value = Big(0) /\ value # Big(0) THEN 20000
                    ELSE IF current_value # Big(0) /\ value = Big(0) THEN 5000
                    ELSE IF current_value # Big(0) /\ value # Big(0) THEN 5000
                    ELSE 200
    IN  [storage |-> HashMap_insert(storage, key, value), gas_cost |-> Big(gas_cost)]

\* practice4 GasEVM::new.
GasEVM_new(instructions, gas_limit) == EVM_new(4, instructions, gas_limit)

\* practice4 GasEVM::check_gas.
check_gas(e, required_gas, checks) ==
    LET sum == u64_add(e.gas_used, required_gas) IN
    IF e.status # "running" THEN e
    ELSE IF sum.overflow /\ checks THEN Crash(e)
    ELSE IF ~BigLeq(sum.val, e.gas_limit) THEN Fail(e, "Out of gas")
    ELSE e

\* practice4 GasEVM::consume_gas.
GasEVM_consume_gas(e, gas, checks) == add_gas(check_gas(e, gas, checks), gas, checks)

\* a + b, a * b and a.saturating_sub(b) pushed by an arithmetic arm; a + b and
\* a * b panic on overflow in a build with overflow checks.
st_push_add(e, a, b, limit, checks) ==
    LET r == u64_add(a, b) IN
    IF e.status # "running" THEN e
    ELSE IF r.overflow /\ checks THEN Crash(e)
    ELSE st_push(e, r.val, limit)

st_push_mul(e, a, b, limit, checks) ==
    LET r == u64_mul(a, b) IN
    IF e.status # "running" THEN e
    ELSE IF r.overflow /\ checks THEN Crash(e)
    ELSE st_push(e, r.val, limit)

u64_saturating_sub(a, b) == IF BigLeq(a, b) THEN Big(0) ELSE BigSub(a, b)

\* self.memory.store(offset, value)? of GasEVM and the consume_gas of the
\* expansion gas it returned.
GasEVM_store(e, offset, value, checks) ==
    IF e.status # "running" THEN e
    ELSE The({The({IF r.err = "panic" THEN Crash(stored)
                   ELSE IF r.ret # Big(0)
                   THEN GasEVM_consume_gas(stored, r.ret, checks)
                   ELSE stored :
                        stored \in {[e EXCEPT !.memory = r.mem]}}) :
                   r \in {practice4_store(e.memory, offset, value, checks)}})

\* self.memory.load(offset)? of GasEVM, the consume_gas of the expansion gas
\* it returned and the push of the value.
GasEVM_load(e, offset, checks) ==
    IF e.status # "running" THEN e
    ELSE The({IF r.err = "panic" THEN Crash(e)
              ELSE IF r.gas # Big(0)
              THEN The({st_push(paid, r.value, 1024) :
                            paid \in {GasEVM_consume_gas(e, r.gas, checks)}})
              ELSE st_push(e, r.value, 1024) :
                   r \in {practice4_load(e.memory, offset, checks)}})

\* self.storage.sstore(key, value) of GasEVM and the consume_gas of its cost.
GasEVM_sstore(e, key, value, checks) ==
    LET r == sstore(e.storage, key, value) IN
    IF e.status # "running" THEN e
    ELSE GasEVM_consume_gas([e EXCEPT !.storage = r.storage], r.gas_cost, checks)

RECURSIVE QuotientDigit(_, _, _, _)
\* The largest number q + t, t below 2^(bit + 1), whose product with b is at
\* most rem.
QuotientDigit(rem, b, bit, q) ==
    IF bit < 0 THEN q
    ELSE IF BigLeq(BigMul(b, Big(q + 2^bit)), rem)
    THEN QuotientDigit(rem, b, bit - 1, q + 2^bit)
    ELSE QuotientDigit(rem, b, bit - 1, q)

\* rem * 256 + digit.
ShiftIn(rem, digit) == [i \in 1..Digits |-> IF i = 1 THEN digit ELSE rem[i - 1]]

RECURSIVE LongDivision(_, _, _, _)
\* The digits i, i - 1, ... of floor(a / b), rem being what is left of the
\* digits above i.
LongDivision(a, b, i, rem) ==
    IF i = 0 THEN <<>>
    ELSE The({The({The({Append(LongDivision(a, b, i - 1, left), q) :
                            left \in {BigSub(t, BigMul(b, Big(q)))}}) :
                       q \in {QuotientDigit(t, b, 7, 0)}}) :
                  t \in {ShiftIn(rem, a[i])}})

\* a / b in u64, for b # 0.
u64_div(a, b) == LongDivision(a, b, 8, Big(0)) \o <<0, 0, 0, 0, 0, 0, 0, 0>>

RECURSIVE byte_and(_, _, _)
\* x & y on the lowest bits of two bytes.
byte_and(x, y, bits) ==
    IF bits = 0 THEN 0
    ELSE (x % 2) * (y % 2) + 2 * byte_and(x \div 2, y \div 2, bits - 1)

u64_and(a, b) == [i \in 1..Digits |-> byte_and(a[i], b[i], 8)]

\* a | b = a + b - (a & b), digit by digit.
u64_or(a, b) == [i \in 1..Digits |-> a[i] + b[i] - byte_and(a[i], b[i], 8)]

Bool(b) == IF b THEN Big(1) ELSE Big(0)

\* practice5 SimpleMemory::store.
practice5_store(mem, offset, value, checks) ==
    LET required_size == u64_add(offset, Big(32))
        aligned_size == align32(required_size.val)
        grown == IF ~BigLeq(required_size.val, mem.size)
                 THEN [mem EXCEPT !.size = aligned_size.val]
                 ELSE mem
    IN  IF required_size.overflow /\ checks
        THEN [err |-> "panic", mem |-> mem]
        ELSE IF ~BigLeq(required_size.val, mem.size) /\ aligned_size.overflow /\ checks
        THEN [err |-> "panic", mem |-> mem]
        ELSE [err |-> "Ok",
              mem |-> [grown EXCEPT !.data = HashMap_insert(@, offset, value)]]

\* practice5 SimpleMemory::load.
practice5_load(mem, offset) == HashMap_get(mem.data, offset)

\* practice5 JumpValidator::new: one flag for each position.
practice5_JumpValidator_new(instructions) ==
    [pc \in 1..Len(instructions) |-> instructions[pc].op = "JumpDest"]

\* practice5 JumpValidator::is_valid_destination.
practice5_is_valid_destination(valid_destinations, pc) ==
    /\ IsSmall(pc)
    /\ IntOf(pc) < Len(valid_destinations)
    /\ valid_destinations[IntOf(pc) + 1]

\* practice5 CompleteEVM::new.
CompleteEVM_new(instructions, gas_limit) ==
    [EVM_new(5, instructions, gas_limit) EXCEPT
        !.validator = practice5_JumpValidator_new(instructions)]

\* practice5 CompleteEVM::consume_gas.
CompleteEVM_consume_gas(e, gas, checks) ==
    LET sum == u64_add(e.gas_used, gas) IN
    IF e.status # "running" THEN e
    ELSE IF sum.overflow /\ checks THEN Crash(e)
    ELSE IF ~BigLeq(sum.val, e.gas_limit) THEN Fail(e, "Out of gas")
    ELSE [e EXCEPT !.gas_used = sum.val]

\* self.memory.store(offset, value)? of CompleteEVM.
CompleteEVM_store(e, offset, value, checks) ==
    LET r == practice5_store(e.memory, offset, value, checks) IN
    IF e.status # "running" THEN e
    ELSE IF r.err = "panic" THEN Crash(e)
    ELSE [e EXCEPT !.memory = r.mem]

\* A jump that takes every destination inside the program.
CompleteEVM_jump_anywhere(e, dest) ==
    IF e.status # "running" THEN e
    ELSE IF ~(IsSmall(dest) /\ IntOf(dest) < Len(e.instructions))
    THEN Fail(e, "Invalid jump destination")
    ELSE [e EXCEPT !.pc = IntOf(dest)]

\* The jump of CompleteEVM::step to a popped destination.
CompleteEVM_jump(e, dest) ==
    IF e.status # "running" THEN e
    ELSE IF ~practice5_is_valid_destination(e.validator, dest)
    THEN Fail(e, "Invalid jump destination")
    ELSE [e EXCEPT !.pc = IntOf(dest)]

\* self.memory.store(offset, value)? of MemoryEVM and
\* self.gas_used += 3 + memory_gas.
MemoryEVM_store(e, offset, value, checks) ==
    The({The({The({IF r.err = "panic" \/ (gas.overflow /\ checks) THEN Crash(stored)
                   ELSE add_gas(stored, gas.val, checks) :
                        stored \in {[e EXCEPT !.memory = r.mem]}}) :
                   gas \in {u64_add(Big(3), r.ret)}}) :
              r \in {practice2_store(e.memory, offset, value, checks)}})

\* The jump of JumpEVM or CompleteEVM.
jump(e, destination) ==
    IF e.kind = 3 THEN JumpEVM_jump(e, destination) ELSE CompleteEVM_jump(e, destination)

\* A conditional jump that validates the destination whatever the condition.
jump_if_validated(e, condition, destination) ==
    IF jump(e, destination).status = "failed" THEN jump(e, destination)
    ELSE IF condition # Big(0) THEN jump(e, destination)
    ELSE Advance(e)

\* if condition != 0 { .. } else { self.pc += 1 } of the JumpI arm.
jump_if(e, condition, destination) ==
    IF condition # Big(0) THEN jump(e, destination) ELSE Advance(e)

\* A statement of a match arm of step.
Statement(m, n, msg) == [m |-> m, n |-> n, msg |-> msg]

Stmt(m) == Statement(m, 0, "")

\* The limit of the interpreter's SimpleStack.
StackLimit(kind) == IF kind \in {4, 5} THEN 1024 ELSE 1000

\* What a statement of an arm does to the interpreter; x holds the arm's
\* instruction and the two entries that were on top of the stack when the arm
\* began (b on top of a).
Do(e, st, x, checks) ==
    CASE st.m = "gas_used +=" -> add_gas(e, Big(st.n), checks)
      [] st.m = "consume_gas" ->
            IF e.kind = 4 THEN GasEVM_consume_gas(e, Big(st.n), checks)
            ELSE CompleteEVM_consume_gas(e, Big(st.n), checks)
      [] st.m = "step_count += 1" ->
            IF u64_add(e.step_count, Big(1)).overflow /\ checks THEN Crash(e)
            ELSE [e EXCEPT !.step_count = u64_add(@, Big(1)).val]
      [] st.m = "len <" -> st_need(e, st.n, st.msg)
      [] st.m = "pop" -> st_pop(e)
      [] st.m = "push value" -> st_push(e, x.instruction.value, StackLimit(e.kind))
      [] st.m = "push wrapping_add" ->
            st_push(e, u64_add(x.a, x.b).val, StackLimit(e.kind))
      [] st.m = "push a + b" -> st_push_add(e, x.a, x.b, StackLimit(e.kind), checks)
      [] st.m = "push a * b" -> st_push_mul(e, x.a, x.b, StackLimit(e.kind), checks)
      [] st.m = "push saturating_sub" ->
            st_push(e, u64_saturating_sub(x.a, x.b), StackLimit(e.kind))
      [] st.m = "push a / b" ->
            st_push(e, IF x.b = Big(0) THEN Big(0) ELSE u64_div(x.a, x.b),
                    StackLimit(e.kind))
      [] st.m = "push a < b" ->
            st_push(e, Bool(x.a # x.b /\ BigLeq(x.a, x.b)), StackLimit(e.kind))
      [] st.m = "push a > b" -> st_push(e, Bool(~BigLeq(x.a, x.b)), StackLimit(e.kind))
      [] st.m = "push a == b" -> st_push(e, Bool(x.a = x.b), StackLimit(e.kind))
      [] st.m = "push a & b" -> st_push(e, u64_and(x.a, x.b), StackLimit(e.kind))
      [] st.m = "push a | b" -> st_push(e, u64_or(x.a, x.b), StackLimit(e.kind))
      [] st.m = "push a == 0" -> st_push(e, Bool(x.b = Big(0)), StackLimit(e.kind))
      [] st.m = "store" ->
            IF e.kind = 2 THEN MemoryEVM_store(e, x.b, x.a, checks)
            ELSE IF e.kind = 4 THEN GasEVM_store(e, x.b, x.a, checks)
            ELSE CompleteEVM_store(e, x.b, x.a, checks)
      [] st.m = "load" ->
            IF e.kind = 2 THEN st_push(e, practice2_load(e.memory, x.b), 1000)
            ELSE IF e.kind = 4 THEN GasEVM_load(e, x.b, checks)
            ELSE st_push(e, practice5_load(e.memory, x.b), 1024)
      [] st.m = "sload" ->
            st_push(GasEVM_consume_gas(e, sload(e.storage, x.b).gas_cost, checks),
                    sload(e.storage, x.b).value, 1024)
      [] st.m = "sstore" -> GasEVM_sstore(e, x.b, x.a, checks)
      [] st.m = "jump" -> jump(e, x.b)
      [] st.m = "jump if" -> jump_if(e, x.a, x.b)
      [] st.m = "pc += 1" -> Advance(e)
      [] st.m = "return Ok(false)" -> Halt(e)

RECURSIVE Exec(_, _, _, _)
\* The statements of an arm in turn, up to the first that returns.
Exec(e, statements, x, checks) ==
    IF statements = <<>> \/ e.status # "running" THEN e
    ELSE The({Exec(done, Tail(statements), x, checks) :
                  done \in {Do(e, Head(statements), x, checks)}})

\* The instruction at pc and the operands an arm reads.
Fetch(e) ==
    [instruction |-> e.instructions[e.pc + 1], b |-> Peek(e, 0), a |-> Peek(e, 1)]

\* The arms of practice1 SimpleEVM::step.
SimpleEVM_arm(op) ==
    CASE op = "Push" -> <<Stmt("push value"), Statement("gas_used +=", 3, ""), Stmt("pc += 1")>>
      [] op = "Add" ->
            <<Statement("len <", 2, "Stack underflow: ADD needs 2 operands"),
              Stmt("pop"), Stmt("pop"), Stmt("push wrapping_add"),
              Statement("gas_used +=", 3, ""), Stmt("pc += 1")>>
      [] op = "Stop" -> <<Stmt("return Ok(false)")>>

\* practice1 SimpleEVM::step.
SimpleEVM_step(e, checks) ==
    IF e.pc >= Len(e.instructions) THEN Halt(e)
    ELSE The({Exec(e, SimpleEVM_arm(x.instruction.op), x, checks) : x \in {Fetch(e)}})

\* The arms of practice2 MemoryEVM::step.
MemoryEVM_arm(op) ==
    CASE op = "Push" -> <<Stmt("push value"), Statement("gas_used +=", 3, ""), Stmt("pc += 1")>>
      [] op = "MStore" ->
            <<Statement("len <", 2,
                        "Stack underflow: MSTORE needs 2 operands (offset, value)"),
              Stmt("pop"), Stmt("pop"), Stmt("store"), Stmt("pc += 1")>>
      [] op = "MLoad" ->
            <<Statement("len <", 1, "Stack underflow: MLOAD needs 1 operand (offset)"),
              Stmt("pop"), Stmt("load"), Statement("gas_used +=", 3, ""), Stmt("pc += 1")>>
      [] op = "Add" ->
            <<Statement("len <", 2, "Stack underflow: ADD needs 2 operands"),
              Stmt("pop"), Stmt("pop"), Stmt("push wrapping_add"),
              Statement("gas_used +=", 3, ""), Stmt("pc += 1")>>
      [] op = "Stop" -> <<Stmt("return Ok(false)")>>

\* practice2 MemoryEVM::step.
MemoryEVM_step(e, checks) ==
    IF e.pc >= Len(e.instructions) THEN Halt(e)
    ELSE The({Exec(e, MemoryEVM_arm(x.instruction.op), x, checks) : x \in {Fetch(e)}})

\* The arms of practice3 JumpEVM::step.
JumpEVM_arm(op) ==
    CASE op = "Push" -> <<Stmt("push value"), Statement("gas_used +=", 3, ""), Stmt("pc += 1")>>
      [] op = "Add" ->
            <<Statement("len <", 2, "Stack underflow: ADD needs 2 operands"),
              Stmt("pop"), Stmt("pop"), Stmt("push wrapping_add"),
              Statement("gas_used +=", 3, ""), Stmt("pc += 1")>>
      [] op = "Jump" ->
            <<Statement("len <", 1, "Stack underflow: JUMP needs 1 operand (destination)"),
              Stmt("pop"), Stmt("jump"), Statement("gas_used +=", 8, "")>>
      [] op = "JumpI" ->
            <<Statement("len <", 2,
                        "Stack underflow: JUMPI needs 2 operands (destination, condition)"),
              Stmt("pop"), Stmt("pop"), Stmt("jump if"), Statement("gas_used +=", 10, "")>>
      [] op = "JumpDest" -> <<Statement("gas_used +=", 1, ""), Stmt("pc += 1")>>
      [] op = "Stop" -> <<Stmt("return Ok(false)")>>

\* practice3 JumpEVM::step.
JumpEVM_step(e, checks) ==
    IF e.pc >= Len(e.instructions) THEN Halt(e)
    ELSE The({Exec(e, JumpEVM_arm(x.instruction.op), x, checks) : x \in {Fetch(e)}})

\* One round of the loop of practice3 JumpEVM::run, which ends after
\* MAX_STEPS rounds.
JumpEVM_run(e, checks) ==
    The({IF after.status # "running" THEN after
         ELSE [after EXCEPT !.steps = @ + 1,
                            !.status = IF e.steps + 1 >= 50 THEN "stopped"
                                       ELSE "running"] :
              after \in {JumpEVM_step(e, checks)}})

\* The arms of practice4 GasEVM::step.
GasEVM_arm(op) ==
    CASE op = "Push" ->
            <<Statement("consume_gas", 3, ""), Stmt("push value"), Stmt("pc += 1")>>
      [] op = "Add" ->
            <<Statement("consume_gas", 3, ""), Stmt("pop"), Stmt("pop"), Stmt("push a + b"),
              Stmt("pc += 1")>>
      [] op = "Mul" ->
            <<Statement("consume_gas", 5, ""), Stmt("pop"), Stmt("pop"), Stmt("push a * b"),
              Stmt("pc += 1")>>
      [] op = "Sub" ->
            <<Statement("consume_gas", 3, ""), Stmt("pop"), Stmt("pop"),
              Stmt("push saturating_sub"), Stmt("pc += 1")>>
      [] op = "MStore" ->
            <<Statement("consume_gas", 3, ""), Stmt("pop"), Stmt("pop"), Stmt("store"),
              Stmt("pc += 1")>>
      [] op = "MLoad" ->
            <<Statement("consume_gas", 3, ""), Stmt("pop"), Stmt("load"), Stmt("pc += 1")>>
      [] op = "SLoad" -> <<Stmt("pop"), Stmt("sload"), Stmt("pc += 1")>>
      [] op = "SStore" -> <<Stmt("pop"), Stmt("pop"), Stmt("sstore"), Stmt("pc += 1")>>
      [] op = "Stop" -> <<Stmt("return Ok(false)")>>

\* practice4 GasEVM::step.
GasEVM_step(e, checks) ==
    IF e.pc >= Len(e.instructions) THEN Halt(e)
    ELSE The({Exec(e, GasEVM_arm(x.instruction.op), x, checks) : x \in {Fetch(e)}})

\* A binary arm of CompleteEVM::step: consume_gas, the pops of b and a, the
\* push of the result and pc += 1.
CompleteEVM_binary(gas, result) ==
    <<Statement("consume_gas", gas, ""), Stmt("pop"), Stmt("pop"), Stmt(result), Stmt("pc += 1")>>

\* The arms of practice5 CompleteEVM::step.
CompleteEVM_arm(op) ==
    CASE op = "Push" ->
            <<Statement("consume_gas", 3, ""), Stmt("push value"), Stmt("pc += 1")>>
      [] op = "Add" -> CompleteEVM_binary(3, "push a + b")
      [] op = "Sub" -> CompleteEVM_binary(3, "push saturating_sub")
      [] op = "Mul" -> CompleteEVM_binary(5, "push a * b")
      [] op = "Div" -> CompleteEVM_binary(5, "push a / b")
      [] op = "Lt" -> CompleteEVM_binary(3, "push a < b")
      [] op = "Gt" -> CompleteEVM_binary(3, "push a > b")
      [] op = "Eq" -> CompleteEVM_binary(3, "push a == b")
      [] op = "And" -> CompleteEVM_binary(3, "push a & b")
      [] op = "Or" -> CompleteEVM_binary(3, "push a | b")
      [] op = "Not" ->
            <<Statement("consume_gas", 3, ""), Stmt("pop"), Stmt("push a == 0"), Stmt("pc += 1")>>
      [] op = "MStore" -> CompleteEVM_binary(3, "store")
      [] op = "MLoad" ->
            <<Statement("consume_gas", 3, ""), Stmt("pop"), Stmt("load"), Stmt("pc += 1")>>
      [] op = "Jump" -> <<Statement("consume_gas", 8, ""), Stmt("pop"), Stmt("jump")>>
      [] op = "JumpI" ->
            <<Statement("consume_gas", 10, ""), Stmt("pop"), Stmt("pop"), Stmt("jump if")>>
      [] op = "JumpDest" -> <<Statement("consume_gas", 1, ""), Stmt("pc += 1")>>
      [] op = "Stop" -> <<Stmt("return Ok(false)")>>

\* practice5 CompleteEVM::step.
CompleteEVM_step(e, checks) ==
    IF e.pc >= Len(e.instructions) THEN Halt(e)
    ELSE The({Exec(e, <<Stmt("step_count += 1")>> \o CompleteEVM_arm(x.instruction.op),
                   x, checks) : x \in {Fetch(e)}})

\* One call of step by the loop of run, for each kind of interpreter.
step(e, checks) ==
    CASE e.kind = 1 -> SimpleEVM_step(e, checks)
      [] e.kind = 2 -> MemoryEVM_step(e, checks)
      [] e.kind = 3 -> JumpEVM_run(e, checks)
      [] e.kind = 4 -> GasEVM_step(e, checks)
      [] e.kind = 5 -> CompleteEVM_step(e, checks)

NoEVM == EVM_new(0, <<>>, Big(0))

\* The gas counters of a CallFrame as its constructors leave them.
CallFrame_new(gas_limit) == [gas_limit |-> gas_limit, gas_used |-> Big(0)]

\* CallFrame::consume_gas: [err, frame].
CallFrame_consume_gas(f, gas, checks) ==
    LET sum == u64_add(f.gas_used, gas) IN
    IF sum.overflow /\ checks THEN [err |-> "panic", frame |-> f]
    ELSE IF ~BigLeq(sum.val, f.gas_limit) THEN [err |-> "OutOfGas", frame |-> f]
    ELSE [err |-> "Ok", frame |-> [f EXCEPT !.gas_used = sum.val]]

\* CallFrame::remaining_gas.
remaining_gas(f) == u64_saturating_sub(f.gas_limit, f.gas_used)

NoFrame == CallFrame_new(Big(0))

NoLedger == [stored |-> {}, expansion |-> Big(0)]

NoSimpleMemory == SimpleMemory_new(4)

NoCharge == [start |-> Big(0), gas |-> Big(0)]

(***************************************************************************)
(* Addresses and hashes of the engine and its backend.  An Address is its  *)
(* 20 bytes.  keccak is modelled as an injective function that never       *)
(* yields H256::zero().                                                    *)
(***************************************************************************)
Address_from(byte) == [i \in 1..20 |-> byte]

H256_zero == <<0>>

keccak(bytes) == <<1>> \o bytes

RECURSIVE bitxor(_, _)
bitxor(a, b) ==
    IF a = 0 /\ b = 0 THEN 0
    ELSE (((a % 2) + (b % 2)) % 2) + 2 * bitxor(a \div 2, b \div 2)

RECURSIVE shr8(_, _)
shr8(n, k) == IF k = 0 THEN n ELSE shr8(n \div 256, k - 1)

\* u64::to_be_bytes
to_be_bytes(n) == [i \in 1..8 |-> (shr8(n, 8 - i)) % 256]

calculate_create_address(caller, nonce) ==
    LET nonce_bytes == to_be_bytes(nonce) IN
    [i \in 1..20 |-> bitxor(caller[i], nonce_bytes[((i - 1) % 8) + 1])]

(***************************************************************************)
(* AccountInfo, Bytecode (models/types.rs) and the backend: InMemoryDB     *)
(* (database/memory.rs) behind the Database trait (database/traits.rs).    *)
(* An Option is a list of no or one element.  The storage map is keyed by  *)
(* <<address, index>>.  The field unavailable stands for the Database      *)
(* trait's Err results: InMemoryDB never returns one, another backend of   *)
(* EVM<SPEC, DB> may.                                                      *)
(***************************************************************************)
AccountInfo(balance, nonce, code_hash, code) ==
    [balance |-> balance, nonce |-> nonce, code_hash |-> code_hash, code |-> code]

Bytecode_new(bytes) == [bytes |-> bytes, hash |-> keccak(bytes)]

InMemoryDB_new ==
    [accounts |-> <<>>, storage |-> <<>>, code |-> <<>>,
     log_access |-> FALSE, access_log |-> <<>>, unavailable |-> FALSE]

insert_account(db, address, info) ==
    LET withcode ==
            IF info.code # <<>>
            THEN LET bytecode == Bytecode_new(info.code[1]) IN
                 [db EXCEPT !.code = map_insert(@, bytecode.hash, bytecode)]
            ELSE db
    IN  [withcode EXCEPT !.accounts = map_insert(@, address, info)]

insert_storage(db, address, index, value) ==
    [db EXCEPT !.storage = map_insert(@, <<address, index>>, value)]

\* get_account_storage: the (slot, value) pairs of the address; the order of
\* the Vec is that of the HashMap's iteration, so the result is a set here.
get_account_storage(db, address) ==
    {<<k[2], db.storage[k]>> : k \in {x \in DOMAIN db.storage : x[1] = address}}

enable_logging(db) == [db EXCEPT !.log_access = TRUE, !.access_log = <<>>]

InMemoryDB_log(db, operation) ==
    IF db.log_access THEN [db EXCEPT !.access_log = Append(@, operation)] ELSE db

\* Database::basic: [err, ret, db]; ret is the Option<AccountInfo>.
basic(db, address) ==
    IF db.unavailable THEN [err |-> "Err", ret |-> <<>>, db |-> db]
    ELSE [err |-> "Ok",
          ret |-> IF address \in DOMAIN db.accounts
                  THEN <<db.accounts[address]>> ELSE <<>>,
          db  |-> InMemoryDB_log(db, <<"BASIC", address>>)]

\* Database::code_by_hash: [err, ret, db]; ret is the Bytecode.
code_by_hash(db, code_hash) ==
    IF db.unavailable THEN [err |-> "Err", ret |-> Bytecode_new(<<>>), db |-> db]
    ELSE [err |-> "Ok",
          ret |-> IF code_hash = H256_zero THEN Bytecode_new(<<>>)
                  ELSE IF code_hash \in DOMAIN db.code THEN db.code[code_hash]
                  ELSE Bytecode_new(<<>>),
          db  |-> InMemoryDB_log(db, <<"CODE_BY_HASH", code_hash>>)]

\* Database::code, the trait's default method: [err, ret, db].
code(db, address) ==
    LET b == basic(db, address) IN
    IF b.err # "Ok" THEN [err |-> "Err", ret |-> Bytecode_new(<<>>), db |-> b.db]
    ELSE IF b.ret # <<>> /\ b.ret[1].code_hash # H256_zero
         THEN code_by_hash(b.db, b.ret[1].code_hash)
         ELSE [err |-> "Ok", ret |-> Bytecode_new(<<>>), db |-> b.db]

\* Database::storage: [err, ret, db]; ret is the U256.
storage(db, address, index) ==
    IF db.unavailable THEN [err |-> "Err", ret |-> 0, db |-> db]
    ELSE [err |-> "Ok",
          ret |-> IF <<address, index>> \in DOMAIN db.storage
                  THEN db.storage[<<address, index>>] ELSE 0,
          db  |-> InMemoryDB_log(db, <<"STORAGE", address, index>>)]

\* StateChange (database/traits.rs 43-61).
CreateAccount(address, info) ==
    [kind |-> "CreateAccount", address |-> address, info |-> info]

DeleteAccount(address) == [kind |-> "DeleteAccount", address |-> address]

UpdateBalance(address, balance) ==
    [kind |-> "UpdateBalance", address |-> address, balance |-> balance]

UpdateNonce(address, nonce) ==
    [kind |-> "UpdateNonce", address |-> address, nonce |-> nonce]

SetCode(address, bytecode) ==
    [kind |-> "SetCode", address |-> address, code |-> bytecode]

UpdateStorage(address, index, value) ==
    [kind |-> "UpdateStorage", address |-> address, index |-> index, value |-> value]

\* storage.retain(|(addr, _), _| *addr != address)
storage_retain_others(m, address) ==
    [k \in {x \in DOMAIN m : x[1] # address} |-> m[k]]

\* UpdateStorage applied without the test for zero.
update_storage_stores_zero(db, address, index, value) ==
    [db EXCEPT !.storage = map_insert(@, <<address, index>>, value)]

\* The UpdateStorage arm of commit.
update_storage(db, address, index, value) ==
    IF value = 0
    THEN [db EXCEPT !.storage = map_remove(@, <<address, index>>)]
    ELSE [db EXCEPT !.storage = map_insert(@, <<address, index>>, value)]

\* One turn of the loop of commit: the match on the change.
apply_change(db, change) ==
    CASE change.kind = "CreateAccount" ->
            insert_account(db, change.address, change.info)
      [] change.kind = "DeleteAccount" ->
            [db EXCEPT !.accounts = map_remove(@, change.address),
                       !.storage = storage_retain_others(@, change.address)]
      [] change.kind = "UpdateBalance" ->
            IF change.address \in DOMAIN db.accounts
            THEN [db EXCEPT !.accounts[change.address].balance = change.balance]
            ELSE db
      [] change.kind = "UpdateNonce" ->
            IF change.address \in DOMAIN db.accounts
            THEN [db EXCEPT !.accounts[change.address].nonce = change.nonce]
            ELSE db
      [] change.kind = "SetCode" ->
            LET held == [db EXCEPT !.code = map_insert(@, change.code.hash, change.code)] IN
            IF change.address \in DOMAIN db.accounts
            THEN [held EXCEPT !.accounts[change.address].code_hash = change.code.hash,
                              !.accounts[change.address].code = <<change.code.bytes>>]
            ELSE held
      [] change.kind = "UpdateStorage" ->
            update_storage(db, change.address, change.index, change.value)

RECURSIVE commit_loop(_, _)
commit_loop(db, changes) ==
    IF changes = <<>> THEN db
    ELSE commit_loop(apply_change(db, Head(changes)), Tail(changes))

\* InMemoryDB::commit: [err, db].
commit(db, changes) ==
    [err |-> "Ok",
     db  |-> commit_loop(InMemoryDB_log(db, <<"COMMIT", Len(changes)>>), changes)]

\* InMemoryDB::with_test_data
with_test_data ==
    LET contract_code == <<96, 128, 96, 64, 82>>
        accounts ==
            insert_account(
                insert_account(InMemoryDB_new, Address_from(1),
                               AccountInfo(1000, 5, H256_zero, <<>>)),
                Address_from(2),
                AccountInfo(500, 1, keccak(contract_code), <<contract_code>>))
    IN  insert_storage(insert_storage(accounts, Address_from(2), 0, 42),
                       Address_from(2), 1, 100)

(***************************************************************************)
(* Init: CallManager::new(MaxDepth), which holds CallStack::new(MaxDepth). *)
(***************************************************************************)
Init ==
    /\ stack = CallStack_new(MaxDepth)
    /\ return_data = <<>>
    /\ state_changes = <<>>
    /\ logs = <<>>
    /\ last = Called("new", MaxDepth, "Ok", <<>>)
    /\ serial = 0
    /\ opened = <<>>
    /\ failed = NoHistory
    /\ prev = Called("none", <<>>, "Ok", <<>>)
    /\ SPEC = Berlin
    /\ database = InMemoryDB_new
    /\ machine = Machine_new(0)
    /\ fault = "Ok"
    /\ commits = 0
    /\ overflow_checks = TRUE
    /\ trail = [base |-> <<>>, pushed |-> <<>>, popped |-> <<>>]
    /\ simple_memory = NoSimpleMemory
    /\ charged = NoCharge
    /\ evm = NoEVM
    /\ ledger = NoLedger
    /\ call_frame = NoFrame

(***************************************************************************)
(* CallStack operations, called on the stack directly.                     *)
(***************************************************************************)
PushFrame(frame) ==
    LET r == push_frame(stack, frame) IN
    /\ stack' = r.st
    /\ last' = Called("push_frame", frame, r.err, <<>>)
    /\ prev' = last
    /\ UNCHANGED <<manager, engine>>

PopFrame ==
    LET r == pop_frame(stack) IN
    /\ stack' = r.st
    /\ last' = Called("pop_frame", <<>>, "Ok", r.ret)
    /\ prev' = last
    /\ UNCHANGED <<manager, engine>>

RollbackToDepth(target_depth) ==
    LET r == rollback_to_depth(stack, target_depth) IN
    /\ stack' = r.st
    /\ last' = Called("rollback_to_depth", target_depth, "Ok", r.ret)
    /\ prev' = last
    /\ UNCHANGED <<manager, engine>>

NextStack ==
    \/ \E frame \in FrameInputs : PushFrame(frame)
    \/ PopFrame
    \/ \E target_depth \in 0..(MaxDepth + 1) : RollbackToDepth(target_depth)

SpecStack == Init /\ [][NextStack]_vars

(***************************************************************************)
(* CallManager (call_stack.rs 355-479).  A StateChange and a Log are       *)
(* modelled by the serial number of the call that handed them in.          *)
(***************************************************************************)
\* check_permissions that asks for a read-only frame anywhere on the stack.
check_permissions_inherited(st, operation) ==
    IF operation \in {"modify_state", "emit_log"} /\ is_in_static_context(st)
    THEN "InvalidOpcode"
    ELSE "Ok"

\* check_permissions: "Ok" or the Error returned.
check_permissions(st, operation) ==
    LET cur == current_frame(st) IN
    IF cur # <<>> /\ operation \in {"modify_state", "emit_log"} /\ cur[1].read_only
    THEN "InvalidOpcode"
    ELSE "Ok"

\* The loop of handle_call_failure over the rolled-back frames.
RECURSIVE rollback_frames(_, _)
rollback_frames(m, rolled_back) ==
    IF rolled_back = <<>> THEN m
    ELSE rollback_frames(rollback_state_changes(m, Head(rolled_back).depth),
                         Tail(rolled_back))

BeginCall(frame) ==
    LET d == frame.depth
        r == push_frame(stack, frame)
    IN
    /\ last' = Called("begin_call", <<>>, r.err, <<>>)
    /\ IF r.err # "Ok"
       THEN UNCHANGED <<stack, state_changes, opened>>
       ELSE /\ stack' = r.st
            /\ state_changes' = map_insert(state_changes, d, <<>>)
            /\ opened' = Append(opened, NoHistory)
    /\ UNCHANGED <<return_data, logs, serial, failed, prev, engine>>

\* end_call that leaves the return-data buffer alone when the call failed.
EndCall_keeps_buffer(success, data) ==
    LET p == pop_frame(stack) IN
    /\ last' = Called("end_call", [success |-> success, return_data |-> data], "Ok", p.ret)
    /\ IF p.ret = <<>>
       THEN UNCHANGED <<stack, return_data, state_changes, opened, failed>>
       ELSE LET d == p.ret[1].depth IN
            /\ stack' = p.st
            /\ return_data' = IF success THEN data ELSE return_data
            /\ state_changes' =
                  map_remove(IF success THEN state_changes
                             ELSE rollback_state_changes(state_changes, d), d)
            /\ opened' = Front(opened, Len(opened) - 1)
            /\ failed' = IF success THEN failed
                         ELSE LET g == Dropped(Len(opened) - 1) IN
                              [changes |-> failed.changes \cup g.changes,
                               logs    |-> failed.logs \cup g.logs]
    /\ UNCHANGED <<logs, serial, prev, engine>>

EndCall(success, data) ==
    LET p == pop_frame(stack) IN
    /\ last' = Called("end_call", [success |-> success, return_data |-> data], "Ok", p.ret)
    /\ IF p.ret = <<>>
       THEN UNCHANGED <<stack, return_data, state_changes, opened, failed>>
       ELSE LET d == p.ret[1].depth IN
            /\ stack' = p.st
            /\ return_data' = IF success THEN data ELSE <<>>
            /\ state_changes' =
                  map_remove(IF success THEN state_changes
                             ELSE rollback_state_changes(state_changes, d), d)
            /\ opened' = Front(opened, Len(opened) - 1)
            /\ failed' = IF success THEN failed
                         ELSE LET g == Dropped(Len(opened) - 1) IN
                              [changes |-> failed.changes \cup g.changes,
                               logs    |-> failed.logs \cup g.logs]
    /\ UNCHANGED <<logs, serial, prev, engine>>

RecordStateChange ==
    LET change == serial + 1
        cur == current_frame(stack)
    IN
    /\ serial < MaxSerial
    /\ serial' = serial + 1
    /\ last' = Called("record_state_change", change, "Ok", <<>>)
    /\ IF cur # <<>>
       THEN /\ state_changes' = map_entry_push(state_changes, cur[1].depth, change)
            /\ opened' = [opened EXCEPT ![Len(opened)].changes = @ \cup {change}]
       ELSE UNCHANGED <<state_changes, opened>>
    /\ UNCHANGED <<stack, return_data, logs, failed, prev, engine>>

AddLog ==
    LET log == serial + 1 IN
    /\ serial < MaxSerial
    /\ serial' = serial + 1
    /\ IF is_in_static_context(stack)
       THEN /\ last' = Called("add_log", log, "InvalidOpcode", <<>>)
            /\ UNCHANGED <<logs, opened>>
       ELSE /\ last' = Called("add_log", log, "Ok", <<>>)
            /\ logs' = Append(logs, log)
            /\ opened' = [i \in 1..Len(opened) |->
                            [opened[i] EXCEPT !.logs = @ \cup {log}]]
    /\ UNCHANGED <<stack, return_data, state_changes, failed, prev, engine>>

CheckPermissions(operation) ==
    /\ last' = Called("check_permissions", operation,
                      check_permissions(stack, operation), <<>>)
    /\ UNCHANGED <<stack, manager, prev, engine>>

HandleCallFailure(target_depth) ==
    LET r == rollback_to_depth(stack, target_depth)
        g == Dropped(Len(r.st.frames))
    IN
    /\ last' = Called("handle_call_failure", target_depth, "Ok", <<>>)
    /\ stack' = r.st
    /\ state_changes' = rollback_frames(state_changes, r.ret)
    /\ return_data' = <<>>
    /\ opened' = Front(opened, Len(r.st.frames))
    /\ failed' = [changes |-> failed.changes \cup g.changes,
                  logs    |-> failed.logs \cup g.logs]
    /\ UNCHANGED <<logs, serial, prev, engine>>

\* The return data a finished call hands to end_call.
ReturnDataInputs == {<<>>, <<66>>}

Next ==
    \/ \E frame \in CallInputs : BeginCall(frame)
    \/ \E success \in BOOLEAN, data \in ReturnDataInputs : EndCall(success, data)
    \/ RecordStateChange
    \/ AddLog
    \/ \E operation \in {"modify_state", "emit_log", "read"} : CheckPermissions(operation)
    \/ \E target_depth \in 0..MaxDepth : HandleCallFailure(target_depth)

Spec == Init /\ [][Next]_vars

\* The manager as the journal sees it: no operation left out here reads or
\* writes state_changes.
NextJournal ==
    \/ \E frame \in CallInputs : BeginCall(frame)
    \/ \E success \in BOOLEAN, data \in ReturnDataInputs : EndCall(success, data)
    \/ RecordStateChange
    \/ \E target_depth \in 0..MaxDepth : HandleCallFailure(target_depth)

SpecJournal == Init /\ [][NextJournal]_vars

\* The manager as the log list and the permission check see it.  The depth
\* a frame is constructed with only chooses the journal key in begin_call;
\* here the callers pass the depth the frame will get, as the callers in
\* bin/practice3_call_stack.rs do.
NextLogs ==
    \/ \E frame \in CallInputs : frame.depth = depth(stack) /\ BeginCall(frame)
    \/ \E success \in BOOLEAN, data \in ReturnDataInputs : EndCall(success, data)
    \/ AddLog
    \/ \E operation \in {"modify_state", "emit_log", "read"} : CheckPermissions(operation)
    \/ \E target_depth \in 0..MaxDepth : HandleCallFailure(target_depth)

SpecLogs == Init /\ [][NextLogs]_vars

\* The manager under begin_call, end_call, record_state_change and add_log:
\* journal, log list and return data all in use.  The
\* callers pass the depth the frame will get or, as many callers in
\* bin/practice3_call_stack.rs do whatever the nesting, the constant 0.
NextManager ==
    \/ \E frame \in CallInputs : frame.depth \in {0, depth(stack)} /\ BeginCall(frame)
    \/ \E success \in BOOLEAN, data \in ReturnDataInputs : EndCall(success, data)
    \/ RecordStateChange
    \/ AddLog

SpecManager == Init /\ [][NextManager]_vars

(***************************************************************************)
(* EVM (engine.rs 93-313).  env is read by no operation and is left out;   *)
(* so are value and gas_price of a Transaction, and of its data only the   *)
(* length is read.                                                         *)
(***************************************************************************)
Transaction(caller, to, data_len, gas_limit) ==
    [caller |-> caller, to |-> to, data_len |-> data_len, gas_limit |-> gas_limit]

ExecutionResult(success, gas_used, ret) ==
    [success |-> success, gas_used |-> gas_used, return_data |-> ret, logs |-> <<>>]

\* execute_call that looks the account up before it debits the call price.
execute_call_reads_first(db, m, profile, to) ==
    LET account == basic(db, to) IN
    IF account.err # "Ok"
    THEN [err |-> "DatabaseError", ret |-> <<>>, db |-> account.db, m |-> m]
    ELSE LET g == use_gas(m, profile.GAS_CALL) IN
         IF g.err # "Ok" THEN [err |-> g.err, ret |-> <<>>, db |-> account.db, m |-> g.m]
         ELSE IF account.ret # <<>> /\ account.ret[1].code_hash # H256_zero
              THEN LET c == code(account.db, to) IN
                   IF c.err # "Ok"
                   THEN [err |-> "DatabaseError", ret |-> <<>>, db |-> c.db, m |-> g.m]
                   ELSE [err |-> "Ok",
                         ret |-> IF c.ret.bytes # <<>> THEN <<66, 0>> ELSE <<>>,
                         db  |-> c.db, m |-> g.m]
              ELSE [err |-> "Ok", ret |-> <<>>, db |-> account.db, m |-> g.m]

\* execute_call: [err, ret, db, m].
execute_call(db, m, profile, to) ==
    LET g == use_gas(m, profile.GAS_CALL) IN
    IF g.err # "Ok" THEN [err |-> g.err, ret |-> <<>>, db |-> db, m |-> g.m]
    ELSE LET account == basic(db, to) IN
         IF account.err # "Ok"
         THEN [err |-> "DatabaseError", ret |-> <<>>, db |-> account.db, m |-> g.m]
         ELSE IF account.ret # <<>> /\ account.ret[1].code_hash # H256_zero
              THEN LET c == code(account.db, to) IN
                   IF c.err # "Ok"
                   THEN [err |-> "DatabaseError", ret |-> <<>>, db |-> c.db, m |-> g.m]
                   ELSE [err |-> "Ok",
                         ret |-> IF c.ret.bytes # <<>> THEN <<66, 0>> ELSE <<>>,
                         db  |-> c.db, m |-> g.m]
              ELSE [err |-> "Ok", ret |-> <<>>, db |-> account.db, m |-> g.m]

\* execute_create that writes the account it created to the backend.
execute_create_deploys(db, m, profile, caller, init_code_len) ==
    LET g == use_gas(m, profile.GAS_CREATE) IN
    IF g.err # "Ok" THEN [err |-> g.err, ret |-> <<>>, db |-> db, m |-> g.m]
    ELSE IF init_code_len > profile.MAX_CODE_SIZE
         THEN [err |-> "OutOfMemory", ret |-> <<>>, db |-> db, m |-> g.m]
         ELSE LET contract_address == calculate_create_address(caller, 1)
                  deploy_cost == init_code_len * profile.GAS_CODE_DEPOSIT
                  h == use_gas(g.m, deploy_cost)
              IN  IF h.err # "Ok"
                  THEN [err |-> h.err, ret |-> <<>>, db |-> db, m |-> h.m]
                  ELSE [err |-> "Ok", ret |-> contract_address,
                        db  |-> insert_account(db, contract_address,
                                               AccountInfo(0, 1, H256_zero, <<>>)),
                        m   |-> h.m]

\* execute_create that tests the code size before it debits the base price.
execute_create_checks_size_first(db, m, profile, caller, init_code_len) ==
    IF init_code_len > profile.MAX_CODE_SIZE
    THEN [err |-> "OutOfMemory", ret |-> <<>>, db |-> db, m |-> m]
    ELSE LET g == use_gas(m, profile.GAS_CREATE) IN
         IF g.err # "Ok" THEN [err |-> g.err, ret |-> <<>>, db |-> db, m |-> g.m]
         ELSE LET contract_address == calculate_create_address(caller, 1)
                  deploy_cost == init_code_len * profile.GAS_CODE_DEPOSIT
                  h == use_gas(g.m, deploy_cost)
              IN  IF h.err # "Ok"
                  THEN [err |-> h.err, ret |-> <<>>, db |-> db, m |-> h.m]
                  ELSE [err |-> "Ok", ret |-> contract_address, db |-> db, m |-> h.m]

\* execute_create: [err, ret, db, m].
execute_create(db, m, profile, caller, init_code_len) ==
    LET g == use_gas(m, profile.GAS_CREATE) IN
    IF g.err # "Ok" THEN [err |-> g.err, ret |-> <<>>, db |-> db, m |-> g.m]
    ELSE IF init_code_len > profile.MAX_CODE_SIZE
         THEN [err |-> "OutOfMemory", ret |-> <<>>, db |-> db, m |-> g.m]
         ELSE LET contract_address == calculate_create_address(caller, 1)
                  deploy_cost == init_code_len * profile.GAS_CODE_DEPOSIT
                  h == use_gas(g.m, deploy_cost)
              IN  IF h.err # "Ok"
                  THEN [err |-> h.err, ret |-> <<>>, db |-> db, m |-> h.m]
                  ELSE [err |-> "Ok", ret |-> contract_address, db |-> db, m |-> h.m]

\* transact that hands the error of the root frame on to its caller.
transact_escalates(db, m, profile, tx) ==
    LET m0 == [m EXCEPT !.gas = tx.gas_limit] IN
    IF Len(m0.stack) > profile.STACK_LIMIT
    THEN [err |-> "StackOverflow", ret |-> <<>>, fault |-> "Ok", db |-> db, m |-> m0]
    ELSE LET result == IF tx.to # <<>>
                       THEN execute_call(db, m0, profile, tx.to[1])
                       ELSE execute_create(db, m0, profile, tx.caller, tx.data_len)
             gas_used == tx.gas_limit - result.m.gas
         IN  [err   |-> result.err,
              ret   |-> IF result.err = "Ok"
                        THEN <<ExecutionResult(TRUE, gas_used, result.ret)>>
                        ELSE <<>>,
              fault |-> result.err,
              db    |-> result.db,
              m     |-> result.m]

\* transact: [err, ret, fault, db, m]; err is the Result's, ret the
\* ExecutionResult as a list of no or one element.
transact(db, m, profile, tx) ==
    LET m0 == [m EXCEPT !.gas = tx.gas_limit] IN
    IF Len(m0.stack) > profile.STACK_LIMIT
    THEN [err |-> "StackOverflow", ret |-> <<>>, fault |-> "Ok", db |-> db, m |-> m0]
    ELSE LET result == IF tx.to # <<>>
                       THEN execute_call(db, m0, profile, tx.to[1])
                       ELSE execute_create(db, m0, profile, tx.caller, tx.data_len)
             gas_used == tx.gas_limit - result.m.gas
         IN  [err   |-> "Ok",
              ret   |-> IF result.err = "Ok"
                        THEN <<ExecutionResult(TRUE, gas_used, result.ret)>>
                        ELSE <<ExecutionResult(FALSE, gas_used, <<>>)>>,
              fault |-> result.err,
              db    |-> result.db,
              m     |-> result.m]

\* The backend the engine is built over: the test data, and an account at
\* [3; 20] whose code hash names code the backend does not hold.
Backend ==
    insert_account(with_test_data, Address_from(3),
                   AccountInfo(0, 0, keccak(<<0>>), <<>>))

\* The transactions handed to transact: calls to the three accounts and to
\* an address without account, and creations with init code of a few bytes
\* and of the lengths around MAX_CODE_SIZE; the gas limits lie around the
\* prices the transaction can be charged.
DataLens(profile) ==
    (0..MaxDataLen)
    \cup (IF profile.MAX_CODE_SIZE < usize_MAX
          THEN {profile.MAX_CODE_SIZE, profile.MAX_CODE_SIZE + 1} ELSE {})

Around(price) == {price - 1, price, price + 1}

CallInputsOf(profile) ==
    {Transaction(Address_from(1), <<Address_from(b)>>, l, g) :
        b \in 1..4, l \in {0, MaxDataLen}, g \in {0} \cup Around(profile.GAS_CALL)}

CreateInputsOf(profile) ==
    UNION {
        {Transaction(Address_from(1), <<>>, l, g) :
            g \in {0} \cup Around(profile.GAS_CREATE)
                  \cup Around(profile.GAS_CREATE + (l * profile.GAS_CODE_DEPOSIT))}
        : l \in DataLens(profile)}

TxInputs(profile) == CallInputsOf(profile) \cup CreateInputsOf(profile)

InitEngine ==
    /\ stack = CallStack_new(MaxDepth)
    /\ return_data = <<>>
    /\ state_changes = <<>>
    /\ logs = <<>>
    /\ serial = 0
    /\ opened = <<>>
    /\ failed = NoHistory
    /\ prev = Called("none", <<>>, "Ok", <<>>)
    /\ SPEC \in Profiles
    /\ database \in {Backend, [Backend EXCEPT !.unavailable = TRUE]}
    /\ machine = Machine_new(0)
    /\ fault = "Ok"
    /\ commits = 0
    /\ overflow_checks = TRUE
    /\ trail = [base |-> <<>>, pushed |-> <<>>, popped |-> <<>>]
    /\ simple_memory = NoSimpleMemory
    /\ charged = NoCharge
    /\ evm = NoEVM
    /\ ledger = NoLedger
    /\ call_frame = NoFrame
    /\ last = Called("new", SPEC.NAME, "Ok", <<>>)

\* database_mut().enable_logging()
EnableLogging ==
    /\ database' = enable_logging(database)
    /\ last' = Called("enable_logging", <<>>, "Ok", <<>>)
    /\ UNCHANGED <<stack, manager, prev, SPEC, machine, fault, commits, overflow_checks, trail,
                   simple_memory, charged, evm, ledger, call_frame>>

Transact(tx) ==
    LET r == transact(database, machine, SPEC, tx) IN
    /\ Len(database.access_log) < MaxAccessLog
    /\ database' = r.db
    /\ machine' = r.m
    /\ fault' = r.fault
    /\ last' = Called("transact", tx, r.err, r.ret)
    /\ UNCHANGED <<stack, manager, prev, SPEC, commits, overflow_checks, trail,
                   simple_memory, charged, evm, ledger, call_frame>>

NextEngine ==
    \/ EnableLogging
    \/ \E tx \in TxInputs(SPEC) : Transact(tx)

SpecEngine == InitEngine /\ [][NextEngine]_vars

(***************************************************************************)
(* InMemoryDB on its own (database/memory.rs): the test data under commit  *)
(* and the reads of storage.                                               *)
(***************************************************************************)
\* The changes handed to commit: updates of a slot that is set, to zero and
\* to another value, and of a slot that is not set, next to changes of the
\* accounts and the code table.
ChangeInputs ==
    {UpdateStorage(Address_from(2), 0, 0),
     UpdateStorage(Address_from(2), 0, 7),
     UpdateStorage(Address_from(1), 0, 7),
     DeleteAccount(Address_from(2)),
     CreateAccount(Address_from(2), AccountInfo(0, 0, H256_zero, <<>>)),
     UpdateBalance(Address_from(1), 1),
     SetCode(Address_from(1), Bytecode_new(<<0>>))}

ChangeLists == UNION {[1..n -> ChangeInputs] : n \in 0..MaxChanges}

\* The slots that are read.
SlotInputs == {Address_from(1), Address_from(2)} \X {0, 1}

InitBackend ==
    /\ stack = CallStack_new(MaxDepth)
    /\ return_data = <<>>
    /\ state_changes = <<>>
    /\ logs = <<>>
    /\ serial = 0
    /\ opened = <<>>
    /\ failed = NoHistory
    /\ prev = Called("none", <<>>, "Ok", <<>>)
    /\ SPEC = Berlin
    /\ database = with_test_data
    /\ machine = Machine_new(0)
    /\ fault = "Ok"
    /\ commits = 0
    /\ overflow_checks = TRUE
    /\ trail = [base |-> <<>>, pushed |-> <<>>, popped |-> <<>>]
    /\ simple_memory = NoSimpleMemory
    /\ charged = NoCharge
    /\ evm = NoEVM
    /\ ledger = NoLedger
    /\ call_frame = NoFrame
    /\ last = Called("with_test_data", <<>>, "Ok", <<>>)

Commit(changes) ==
    LET r == commit(database, changes) IN
    /\ commits < MaxCommits
    /\ commits' = commits + 1
    /\ database' = r.db
    /\ last' = Called("commit", changes, r.err, <<>>)
    /\ UNCHANGED <<stack, manager, prev, SPEC, machine, fault, overflow_checks, trail,
                   simple_memory, charged, evm, ledger, call_frame>>

Storage(address, index) ==
    LET r == storage(database, address, index) IN
    /\ database' = r.db
    /\ last' = Called("storage", <<address, index>>, r.err, r.ret)
    /\ UNCHANGED <<stack, manager, prev, SPEC, machine, fault, commits, overflow_checks, trail,
                   simple_memory, charged, evm, ledger, call_frame>>

GetAccountStorage(address) ==
    /\ last' = Called("get_account_storage", address, "Ok",
                      get_account_storage(database, address))
    /\ UNCHANGED <<stack, manager, prev, engine>>

NextBackend ==
    \/ \E changes \in ChangeLists : Commit(changes)
    \/ \E slot \in SlotInputs : Storage(slot[1], slot[2])
    \/ \E address \in {Address_from(1), Address_from(2)} : GetAccountStorage(address)

SpecBackend == InitBackend /\ [][NextBackend]_vars

(***************************************************************************)
(* A Machine driven directly (engine.rs 26-85).                            *)
(***************************************************************************)
\* A process that panicked or aborted makes no further call.
Running == last.err \notin {"panic", "abort"}

Zeros(n) == [i \in 1..n |-> 0]

\* The Machine starts as Machine::new(gas) left it, or after 1024 - MaxStack
\* pushes of zero.
InitMachine ==
    /\ stack = CallStack_new(MaxDepth)
    /\ return_data = <<>>
    /\ state_changes = <<>>
    /\ logs = <<>>
    /\ serial = 0
    /\ opened = <<>>
    /\ failed = NoHistory
    /\ prev = Called("none", <<>>, "Ok", <<>>)
    /\ SPEC = Berlin
    /\ database = InMemoryDB_new
    /\ fault = "Ok"
    /\ commits = 0
    /\ overflow_checks = TRUE
    /\ \E gas \in 0..MaxGas, filled \in {0, 1024 - MaxStack} :
          /\ machine = [Machine_new(gas) EXCEPT !.stack = Zeros(filled)]
          /\ trail = [base |-> Zeros(filled), pushed |-> <<>>, popped |-> <<>>]
          /\ last = Called("new", gas, "Ok", <<>>)
    /\ simple_memory = NoSimpleMemory
    /\ charged = NoCharge
    /\ evm = NoEVM
    /\ ledger = NoLedger
    /\ call_frame = NoFrame

Push(value) ==
    LET r == push(machine, value) IN
    /\ Running
    /\ Len(machine.stack) < MaxStack \/ Len(machine.stack) >= 1024 - MaxStack
    /\ machine' = r.m
    /\ last' = Called("push", value, r.err, <<>>)
    /\ trail' = IF r.err = "Ok" /\ trail.popped = <<>>
                THEN [trail EXCEPT !.pushed = Append(@, value)]
                ELSE IF r.err = "Ok"
                THEN [base |-> machine.stack, pushed |-> <<value>>, popped |-> <<>>]
                ELSE [base |-> r.m.stack, pushed |-> <<>>, popped |-> <<>>]
    /\ UNCHANGED <<stack, manager, prev, SPEC, database, fault, commits, overflow_checks,
                   simple_memory, charged, evm, ledger, call_frame>>

Pop ==
    LET r == pop(machine) IN
    /\ Running
    /\ machine' = r.m
    /\ last' = Called("pop", <<>>, r.err, r.ret)
    /\ trail' = IF r.err = "Ok" /\ Len(trail.popped) < Len(trail.pushed)
                THEN [trail EXCEPT !.popped = @ \o r.ret]
                ELSE [base |-> r.m.stack, pushed |-> <<>>, popped |-> <<>>]
    /\ UNCHANGED <<stack, manager, prev, SPEC, database, fault, commits, overflow_checks,
                   simple_memory, charged, evm, ledger, call_frame>>

UseGas(gas) ==
    LET r == use_gas(machine, gas) IN
    /\ Running
    /\ machine' = r.m
    /\ last' = Called("use_gas", gas, r.err, <<>>)
    /\ UNCHANGED <<stack, manager, prev, SPEC, database, fault, commits,
                   overflow_checks, trail,
                   simple_memory, charged, evm, ledger, call_frame>>

NextMachine ==
    \/ \E value \in {1, 2} : Push(value)
    \/ Pop
    \/ \E gas \in 0..MaxGas + 1 : UseGas(gas)

SpecMachine == InitMachine /\ [][NextMachine]_vars

(***************************************************************************)
(* The memory of a Machine (engine.rs 52-75).                              *)
(***************************************************************************)
\* Offsets at the start of memory, around the end of its first word, at the
\* end of its second word, and near the largest usize.
OffsetInputs == {0, 31, 33, 63, usize_MAX - 5, usize_MAX}

DataInputs == {<<>>, <<7>>, <<7, 8>>}

SizeInputs == {0, 1, 2}

InitMemory ==
    /\ stack = CallStack_new(MaxDepth)
    /\ return_data = <<>>
    /\ state_changes = <<>>
    /\ logs = <<>>
    /\ serial = 0
    /\ opened = <<>>
    /\ failed = NoHistory
    /\ prev = Called("none", <<>>, "Ok", <<>>)
    /\ SPEC = Berlin
    /\ database = InMemoryDB_new
    /\ fault = "Ok"
    /\ commits = 0
    /\ overflow_checks \in BOOLEAN
    /\ machine = Machine_new(0)
    /\ trail = [base |-> <<>>, pushed |-> <<>>, popped |-> <<>>]
    /\ simple_memory = NoSimpleMemory
    /\ charged = NoCharge
    /\ evm = NoEVM
    /\ ledger = NoLedger
    /\ call_frame = NoFrame
    /\ last = Called("new", 0, "Ok", <<>>)

ExpandMemory(offset, size) ==
    LET r == expand_memory(machine, offset, size, overflow_checks) IN
    /\ Running
    /\ machine' = r.m
    /\ last' = Called("expand_memory", <<offset, size>>, r.err, <<>>)
    /\ UNCHANGED <<stack, manager, prev, SPEC, database, fault, commits,
                   overflow_checks, trail,
                   simple_memory, charged, evm, ledger, call_frame>>

MemoryRead(offset, size) ==
    LET r == memory_read(machine, offset, size, overflow_checks) IN
    /\ Running
    /\ machine' = r.m
    /\ last' = Called("memory_read", <<offset, size>>, r.err, r.ret)
    /\ UNCHANGED <<stack, manager, prev, SPEC, database, fault, commits,
                   overflow_checks, trail,
                   simple_memory, charged, evm, ledger, call_frame>>

MemoryWrite(offset, data) ==
    LET r == memory_write(machine, offset, data, overflow_checks) IN
    /\ Running
    /\ machine' = r.m
    /\ last' = Called("memory_write", <<offset, data>>, r.err, <<>>)
    /\ UNCHANGED <<stack, manager, prev, SPEC, database, fault, commits,
                   overflow_checks, trail,
                   simple_memory, charged, evm, ledger, call_frame>>

NextMemory ==
    \/ \E offset \in OffsetInputs, size \in SizeInputs : ExpandMemory(offset, size)
    \/ \E offset \in OffsetInputs, size \in SizeInputs : MemoryRead(offset, size)
    \/ \E offset \in OffsetInputs, data \in DataInputs : MemoryWrite(offset, data)

SpecMemory == InitMemory /\ [][NextMemory]_vars

(***************************************************************************)
(* A SimpleMemory of practice2 or practice4 under store and expand_to,     *)
(* and the gas functions applied to sizes.                                 *)
(***************************************************************************)
\* Sizes within the first words of memory, and the two sizes on either
\* side of 2^32 words (the largest holds 128 GiB).
GasSizes ==
    {Big(0), Big(33), Big(128), BigSub(Pow2(37), Big(32)), Pow2(37)}

\* Offsets whose 32-byte slots end at sizes of GasSizes.
StoreOffsets == {Big(96), BigSub(Pow2(37), Big(32))}

\* A SimpleMemory as new left it, or after a store at offset 32.
InitSimpleMemory ==
    /\ stack = CallStack_new(MaxDepth)
    /\ return_data = <<>>
    /\ state_changes = <<>>
    /\ logs = <<>>
    /\ serial = 0
    /\ opened = <<>>
    /\ failed = NoHistory
    /\ prev = Called("none", <<>>, "Ok", <<>>)
    /\ SPEC = Berlin
    /\ database = InMemoryDB_new
    /\ machine = Machine_new(0)
    /\ fault = "Ok"
    /\ commits = 0
    /\ trail = [base |-> <<>>, pushed |-> <<>>, popped |-> <<>>]
    /\ overflow_checks \in BOOLEAN
    /\ \E practice \in {2, 4} :
          /\ \/ simple_memory = SimpleMemory_new(practice)
             \/ simple_memory = [practice |-> practice,
                                 data |-> {<<Big(32), 1>>}, size |-> Big(64)]
          /\ last = Called("new", practice, "Ok", <<>>)
    /\ charged = [start |-> simple_memory.size, gas |-> Big(0)]
    /\ evm = NoEVM
    /\ ledger = NoLedger
    /\ call_frame = NoFrame

Charge(r) ==
    IF r.err = "Ok" THEN [charged EXCEPT !.gas = BigAdd(@, r.ret)] ELSE charged

Store(offset, value) ==
    LET r == IF simple_memory.practice = 2
             THEN practice2_store(simple_memory, offset, value, overflow_checks)
             ELSE practice4_store(simple_memory, offset, value, overflow_checks)
    IN
    /\ Running
    /\ simple_memory' = r.mem
    /\ charged' = Charge(r)
    /\ last' = Called("store", <<offset, value>>, r.err, r.ret)
    /\ UNCHANGED <<stack, manager, prev, SPEC, database, machine, fault, commits,
                   overflow_checks, trail, evm, ledger, call_frame>>

ExpandTo(new_size) ==
    LET r == expand_to(simple_memory, new_size, overflow_checks) IN
    /\ Running
    /\ simple_memory.practice = 4
    /\ simple_memory' = r.mem
    /\ charged' = Charge(r)
    /\ last' = Called("expand_to", new_size, r.err, r.ret)
    /\ UNCHANGED <<stack, manager, prev, SPEC, database, machine, fault, commits,
                   overflow_checks, trail, evm, ledger, call_frame>>

CalculateMemoryExpansionGas(old_size, new_size) ==
    LET r == calculate_memory_expansion_gas(old_size, new_size, overflow_checks) IN
    /\ Running
    /\ simple_memory.practice = 4
    /\ last' = Called("calculate_memory_expansion_gas", <<old_size, new_size>>,
                      r.err, r.ret)
    /\ UNCHANGED <<stack, manager, prev, SPEC, database, machine, fault, commits,
                   overflow_checks, trail, simple_memory, charged,
                   evm, ledger, call_frame>>

CalculateMemoryGas(old_size, new_size) ==
    LET r == calculate_memory_gas(old_size, new_size, overflow_checks) IN
    /\ Running
    /\ simple_memory.practice = 2
    /\ last' = Called("calculate_memory_gas", <<old_size, new_size>>, r.err, r.ret)
    /\ UNCHANGED <<stack, manager, prev, SPEC, database, machine, fault, commits,
                   overflow_checks, trail, simple_memory, charged,
                   evm, ledger, call_frame>>

NextSimpleMemory ==
    \/ \E offset \in StoreOffsets : Store(offset, 1)
    \/ \E new_size \in GasSizes : ExpandTo(new_size)
    \/ \E old_size \in GasSizes, new_size \in GasSizes :
          CalculateMemoryExpansionGas(old_size, new_size)
    \/ \E old_size \in GasSizes, new_size \in GasSizes :
          CalculateMemoryGas(old_size, new_size)

SpecSimpleMemory == InitSimpleMemory /\ [][NextSimpleMemory]_vars

(***************************************************************************)
(* The interpreters of stage1-stack-machine inside run: one action for     *)
(* each round of run's loop, on programs made of a few instructions.       *)
(***************************************************************************)
\* Every variable but the interpreter's, as construction leaves it.
InitOthers ==
    /\ stack = CallStack_new(MaxDepth)
    /\ return_data = <<>>
    /\ state_changes = <<>>
    /\ logs = <<>>
    /\ serial = 0
    /\ opened = <<>>
    /\ failed = NoHistory
    /\ prev = Called("none", <<>>, "Ok", <<>>)
    /\ SPEC = Berlin
    /\ database = InMemoryDB_new
    /\ machine = Machine_new(0)
    /\ fault = "Ok"
    /\ commits = 0
    /\ trail = [base |-> <<>>, pushed |-> <<>>, popped |-> <<>>]
    /\ simple_memory = NoSimpleMemory
    /\ charged = NoCharge
    /\ last = Called("new", <<>>, "Ok", <<>>)

\* The programs of 1 to n instructions over an alphabet.
Programs(alphabet, n) == UNION {[1..k -> alphabet] : k \in 1..n}

\* What a round of run's loop adds to the history: the value of a completed
\* MSTORE, and the gas a GasEVM was charged beyond the 3 of MSTORE or MLOAD.
Ledger(l, e, after) ==
    LET instruction == e.instructions[e.pc + 1]
        completed == e.pc < Len(e.instructions) /\ after.status = "running"
    IN  [stored |->
            IF completed /\ instruction.op = "MStore"
            THEN HashMap_insert(l.stored, Peek(e, 0), Peek(e, 1))
            ELSE l.stored,
         expansion |->
            IF completed /\ e.kind = 4 /\ instruction.op \in {"MStore", "MLoad"}
            THEN BigAdd(l.expansion,
                        BigSub(BigSub(after.gas_used, e.gas_used), Big(3)))
            ELSE l.expansion]

\* run calls step once more.
Step(kind) ==
    /\ evm.kind = kind
    /\ evm.status = "running"
    /\ evm' = step(evm, overflow_checks)
    /\ ledger' = Ledger(ledger, evm, evm')
    /\ UNCHANGED <<stack, manager, prev, SPEC, database, machine, fault, commits,
                   overflow_checks, trail, simple_memory, charged, last,
                   call_frame>>

\* Pushes of 0 and 2, the two jumps, a jump destination and Stop.
JumpAlphabet ==
    {Instruction_Push(Big(0)), Instruction_Push(Big(2)), Instruction("Jump"),
     Instruction("JumpI"), Instruction("JumpDest"), Instruction("Stop")}

\* A JumpEVM, or a CompleteEVM with JumpGas gas, on a program of jumps.
InitJump ==
    /\ InitOthers
    /\ overflow_checks \in BOOLEAN
    /\ \E instructions \in Programs(JumpAlphabet, MaxJumpProgram) :
          \/ evm = JumpEVM_new(instructions)
          \/ evm = CompleteEVM_new(instructions, Big(JumpGas))
    /\ ledger = NoLedger
    /\ call_frame = NoFrame

NextJump ==
    \/ Step(3)
    \/ Step(5)

SpecJump == InitJump /\ [][NextJump]_vars

\* u64::MAX.
u64_MAX == BigSub(Pow2(64), Big(1))

\* Pushes of 3, 5 and u64::MAX, Add and Stop.
ArithAlphabet ==
    {Instruction_Push(Big(3)), Instruction_Push(Big(5)), Instruction_Push(u64_MAX),
     Instruction("Add"), Instruction("Stop")}

\* A SimpleEVM, or a CompleteEVM with ArithGas gas, on a program of pushes
\* and additions.
InitArith ==
    /\ InitOthers
    /\ overflow_checks \in BOOLEAN
    /\ \E instructions \in Programs(ArithAlphabet, MaxProgram) :
          \/ evm = SimpleEVM_new(instructions)
          \/ evm = CompleteEVM_new(instructions, Big(ArithGas))
    /\ ledger = NoLedger
    /\ call_frame = NoFrame

NextArith ==
    \/ Step(1)
    \/ Step(5)

SpecArith == InitArith /\ [][NextArith]_vars

\* Pushes of 32 and of 2^64 - 32 (the last offset of a 32-byte slot that
\* ends within a u64), MStore and MLoad.
MemoryAlphabet ==
    {Instruction_Push(Big(32)), Instruction_Push(BigSub(Pow2(64), Big(32))),
     Instruction("MStore"), Instruction("MLoad")}

\* A MemoryEVM, or a CompleteEVM with MemoryGas gas, on a program of stores
\* and loads.
InitLoadStore ==
    /\ InitOthers
    /\ overflow_checks \in BOOLEAN
    /\ \E instructions \in Programs(MemoryAlphabet, MaxMemoryProgram) :
          \/ evm = MemoryEVM_new(instructions)
          \/ evm = CompleteEVM_new(instructions, Big(MemoryGas))
    /\ ledger = NoLedger
    /\ call_frame = NoFrame

NextLoadStore ==
    \/ Step(2)
    \/ Step(5)

SpecLoadStore == InitLoadStore /\ [][NextLoadStore]_vars

\* Pushes of 0 and 64, MStore and MLoad.
GasAlphabet ==
    {Instruction_Push(Big(0)), Instruction_Push(Big(64)),
     Instruction("MStore"), Instruction("MLoad")}

\* A GasEVM with LowGas or HighGas gas on a program of stores and loads.
InitGasEVM ==
    /\ InitOthers
    /\ overflow_checks \in BOOLEAN
    /\ \E instructions \in Programs(GasAlphabet, MaxProgram),
          gas_limit \in {LowGas, HighGas} :
          evm = GasEVM_new(instructions, Big(gas_limit))
    /\ ledger = NoLedger
    /\ call_frame = NoFrame

NextGasEVM == Step(4)

SpecGasEVM == InitGasEVM /\ [][NextGasEVM]_vars

(***************************************************************************)
(* The run loops.  JumpEVM::run and CompleteEVM::run call step again and   *)
(* again until it returns Ok(false) or an error, so an enabled step is     *)
(* eventually taken: weak fairness on the steps.                           *)
(*                                                                         *)
(* A run starts from a new interpreter, as in SpecJump.  With the gas      *)
(* limit u64::MAX the program LoopProgram = [JumpDest, Push(0), Jump]      *)
(* is back at pc = 0 with an empty stack after every third step, having    *)
(* paid 1 + 3 + 8 = 12 gas for the three; no debit is refused while        *)
(* gas_used + 12 <= u64::MAX.  2^64 - 4 is a multiple of 12, so after      *)
(* WrapIterations = (2^64 - 4) / 12 rounds the run is in the state         *)
(* NearWrap, where the model takes it up.                                  *)
(***************************************************************************)
LoopProgram ==
    <<Instruction("JumpDest"), Instruction_Push(Big(0)), Instruction("Jump")>>

WrapIterations == BigDiv(BigSub(Pow2(64), Big(4)), 12)

\* The CompleteEVM on LoopProgram after n rounds of the loop.
AfterLoops(n, gas_limit) ==
    [CompleteEVM_new(LoopProgram, gas_limit) EXCEPT
        !.gas_used = BigMul(n, Big(12)),
        !.step_count = BigMul(n, Big(3))]

NearWrap == AfterLoops(WrapIterations, u64_MAX)

InitRun ==
    /\ InitOthers
    /\ overflow_checks \in BOOLEAN
    /\ \/ \E instructions \in Programs(JumpAlphabet, MaxJumpProgram) :
             \/ evm = JumpEVM_new(instructions)
             \/ evm = CompleteEVM_new(instructions, Big(JumpGas))
       \/ evm = NearWrap
    /\ ledger = NoLedger
    /\ call_frame = NoFrame

\* One pass of the loop of run, followed until step_count is MaxRunSteps
\* beyond NearWrap's.
RunStep(kind) ==
    /\ BigLeq(evm.step_count, BigAdd(NearWrap.step_count, Big(MaxRunSteps)))
    /\ Step(kind)

NextRun ==
    \/ RunStep(3)
    \/ RunStep(5)

SpecRun ==
    InitRun /\ [][NextRun]_vars /\ WF_vars(RunStep(3)) /\ WF_vars(RunStep(5))

(***************************************************************************)
(* The gas counters: a GasEVM or a CompleteEVM inside run, or a CallFrame  *)
(* under consume_gas and remaining_gas.                                    *)
(***************************************************************************)
\* The gas limits of a CallFrame and the amounts handed to consume_gas.
FrameLimits == {Big(FrameGas), Pow2(63), u64_MAX}

GasAmounts == {Big(1), Big(FrameGas), Pow2(63), u64_MAX}

InitGas ==
    /\ InitOthers
    /\ overflow_checks \in BOOLEAN
    /\ ledger = NoLedger
    /\ \/ /\ \E instructions \in Programs(GasAlphabet, MaxProgram) :
                \/ evm = GasEVM_new(instructions, Big(HighGas))
                \/ evm = CompleteEVM_new(instructions, Big(MemoryGas))
          /\ call_frame = NoFrame
       \/ /\ evm = NoEVM
          /\ \E gas_limit \in FrameLimits : call_frame = CallFrame_new(gas_limit)

\* consume_gas is called on the frame, while the frame has used no more than
\* MaxUsed gas.
ConsumeGas(gas) ==
    LET r == CallFrame_consume_gas(call_frame, gas, overflow_checks) IN
    /\ evm = NoEVM
    /\ Running
    /\ BigLeq(call_frame.gas_used, Big(MaxUsed))
    /\ call_frame' = r.frame
    /\ last' = Called("consume_gas", gas, r.err, <<>>)
    /\ UNCHANGED <<stack, manager, prev, SPEC, database, machine, fault, commits,
                   overflow_checks, trail, simple_memory, charged, evm, ledger>>

RemainingGas ==
    /\ evm = NoEVM
    /\ Running
    /\ last' = Called("remaining_gas", <<>>, "Ok", remaining_gas(call_frame))
    /\ UNCHANGED <<stack, manager, prev, SPEC, database, machine, fault, commits,
                   overflow_checks, trail, simple_memory, charged, evm, ledger,
                   call_frame>>

NextGas ==
    \/ Step(4)
    \/ Step(5)
    \/ \E gas \in GasAmounts : ConsumeGas(gas)
    \/ RemainingGas

SpecGas == InitGas /\ [][NextGas]_vars

(***************************************************************************)
(* Properties.                                                             *)
(***************************************************************************)
Bucket(m, d) == IF d \in DOMAIN m THEN m[d] ELSE <<>>

Held(m) == UNION {{m[d][i] : i \in 1..Len(m[d])} : d \in DOMAIN m}

Depths(st) == {st.frames[i].depth : i \in 1..Len(st.frames)}

SomeReadOnly(st) == \E i \in 1..Len(st.frames) : st.frames[i].read_only

TopFrame(st) == st.frames[Len(st.frames)]

\* C1: journal atomicity.  No state change recorded by a frame that was
\* closed with end_call(false, ..) or unwound by handle_call_failure is held
\* in any bucket of the journal afterwards: not in the parent's, and not in
\* that of a sibling opened later at the same depth.
C1_JournalAtomicity == Held(state_changes) \cap failed.changes = {}

\* A frame recorded a change and failed, and the journal of the frames that
\* went on holds a change of their own.
C1_Witness ==
    /\ failed.changes # {}
    /\ Held(state_changes) # {}
    /\ last.op \in {"end_call", "handle_call_failure", "record_state_change"}

\* C2: end_call(true, ..) on a nested frame commits the frame's recorded
\* changes into the parent's bucket, after the parent's earlier records.
C2_SuccessCommitsToParent ==
    [][(last'.op = "end_call" /\ last'.arg.success /\ Len(stack.frames) >= 2)
        => LET child  == stack.frames[Len(stack.frames)].depth
               parent == stack.frames[Len(stack.frames) - 1].depth
           IN  Bucket(state_changes', parent) =
                   Bucket(state_changes, parent) \o Bucket(state_changes, child)]_vars

\* C3: the log list holds no log that was added while a frame was open that
\* later ended with success = false or was unwound by handle_call_failure.
C3_FailedLogsDoNotSurvive == {logs[i] : i \in 1..Len(logs)} \cap failed.logs = {}

\* C4: add_log fails with InvalidOpcode and leaves the log list unchanged
\* whenever some frame on the stack is read-only, whatever the top frame is;
\* otherwise it appends exactly the given log.
C4_ReadOnlyInheritance ==
    [][last'.op = "add_log"
        => IF SomeReadOnly(stack)
           THEN last'.err = "InvalidOpcode" /\ logs' = logs
           ELSE last'.err = "Ok" /\ logs' = Append(logs, last'.arg)]_vars

\* add_log was refused under a top frame that is not read-only itself,
\* because of a read-only ancestor.
C4_Witness ==
    /\ last.op = "add_log"
    /\ last.err = "InvalidOpcode"
    /\ Len(stack.frames) >= 2
    /\ ~TopFrame(stack).read_only
    /\ stack.frames[1].read_only

\* C5: check_permissions("modify_state") fails with InvalidOpcode whenever
\* some frame on the stack is read-only, also when the current frame's own
\* read_only flag is false.
C5_ReadOnlyNotCleared ==
    (last.op = "check_permissions" /\ last.arg = "modify_state" /\ SomeReadOnly(stack))
        => last.err = "InvalidOpcode"

\* C6: push_frame succeeds if and only if the current depth is below the
\* limit; a refused push returns CallDepthExceeded and leaves the frame list
\* and the depth counter unchanged.
C6_CallDepthLimit ==
    [][last'.op = "push_frame"
        => IF stack.current_depth < stack.max_depth
           THEN /\ last'.err = "Ok"
                /\ Len(stack'.frames) = Len(stack.frames) + 1
                /\ stack'.current_depth = stack.current_depth + 1
           ELSE /\ last'.err = "CallDepthExceeded"
                /\ stack' = stack]_vars

\* The limit's worth of nested pushes was accepted and the next one refused.
C6_Witness ==
    /\ last.op = "push_frame"
    /\ last.err = "CallDepthExceeded"
    /\ Len(stack.frames) = MaxDepth
    /\ stack.max_depth = MaxDepth

\* C7: depth() is the number of frames on the stack and never above
\* max_depth, the frame at index i has depth i whatever depth it was built
\* with, is_empty() holds exactly at depth 0, and pop_frame on an empty
\* stack returns nothing and leaves the depth at 0.
C7_StackInv ==
    /\ depth(stack) = Len(stack.frames)
    /\ depth(stack) \in 0..stack.max_depth
    /\ \A i \in 1..Len(stack.frames) : stack.frames[i].depth = i - 1
    /\ is_empty(stack) <=> depth(stack) = 0

C7_PopOnEmpty ==
    (last'.op = "pop_frame" /\ stack.frames = <<>>)
        => last'.ret = <<>> /\ stack' = stack /\ depth(stack') = 0

C7_DepthInvariant == [](C7_StackInv) /\ [][C7_PopOnEmpty]_vars

\* The stack is full, and its top frame was built with another depth than
\* the one it got.
C7_Witness ==
    /\ last.op = "push_frame"
    /\ last.err = "Ok"
    /\ last.arg.depth # TopFrame(stack).depth
    /\ Len(stack.frames) = MaxDepth

\* C8: after a successful begin_call the journal holds an empty bucket keyed
\* by the depth the stack gave the new top frame.
C8_BucketAtAssignedDepth ==
    (last.op = "begin_call" /\ last.err = "Ok")
        => /\ TopFrame(stack).depth \in DOMAIN state_changes
           /\ state_changes[TopFrame(stack).depth] = <<>>

\* C9: begin_call leaves the bucket of every frame already on the stack
\* unchanged.
C9_BeginKeepsAncestorBuckets ==
    [][(last'.op = "begin_call" /\ last'.err = "Ok")
        => \A d \in Depths(stack) :
              Bucket(state_changes', d) = Bucket(state_changes, d)]_vars

\* C10: every key of the journal map is the depth of a frame on the stack.
C10_NoStaleBuckets == DOMAIN state_changes \subseteq Depths(stack)

\* C11: end_call(false, ..) on a non-empty stack pops exactly one frame,
\* the top one, and removes from the journal only the bucket of that frame's
\* depth: the frames that remain, the buckets of their depths and the log
\* list are as before.
C11_EndCallFailureScoped ==
    [][(last'.op = "end_call" /\ ~last'.arg.success /\ stack.frames # <<>>)
        => LET n == Len(stack.frames) IN
           /\ last'.ret = <<TopFrame(stack)>>
           /\ stack'.frames = Front(stack.frames, n - 1)
           /\ depth(stack') = depth(stack) - 1
           /\ TopFrame(stack).depth \notin DOMAIN state_changes'
           /\ \A d \in Depths(stack') :
                 /\ d \in DOMAIN state_changes' <=> d \in DOMAIN state_changes
                 /\ Bucket(state_changes', d) = Bucket(state_changes, d)
           /\ logs' = logs]_vars

\* A nested frame was closed with success = false while its parent's bucket
\* and the log list were not empty.
C11_Witness ==
    /\ last.op = "end_call"
    /\ ~last.arg.success
    /\ last.ret # <<>>
    /\ Len(stack.frames) = 1
    /\ Bucket(state_changes, TopFrame(stack).depth) # <<>>
    /\ logs # <<>>

\* C12: handle_call_failure(target) leaves the stack at depth
\* min(depth before, target) with the frames below the target in place,
\* leaves no bucket under the depth of any frame it unwound, leaves the
\* buckets of the frames that remain as they were, and empties the
\* return-data buffer.
C12_HandleCallFailure ==
    [][last'.op = "handle_call_failure"
        => LET n == Len(stack.frames)
               k == IF n <= last'.arg THEN n ELSE last'.arg
           IN
           /\ depth(stack') = k
           /\ stack'.frames = Front(stack.frames, k)
           /\ \A i \in (k + 1)..n : stack.frames[i].depth \notin DOMAIN state_changes'
           /\ \A i \in 1..k :
                 LET d == stack.frames[i].depth IN
                 /\ d \in DOMAIN state_changes' <=> d \in DOMAIN state_changes
                 /\ Bucket(state_changes', d) = Bucket(state_changes, d)
           /\ return_data' = <<>>]_vars

\* handle_call_failure(1) unwound a nested frame that had recorded a change
\* and left the outermost frame with the change it had recorded.
C12_Witness ==
    /\ last.op = "handle_call_failure"
    /\ last.arg = 1
    /\ Len(stack.frames) = 1
    /\ failed.changes # {}
    /\ Bucket(state_changes, TopFrame(stack).depth) # <<>>

\* C13: after end_call(true, d) on a non-empty stack return_data() is d;
\* after end_call(false, d) on a non-empty stack it is empty, whatever d is
\* and whatever the buffer held; end_call on an empty stack returns nothing
\* and leaves return data, journal and logs unchanged.
C13_ReturnData ==
    [][last'.op = "end_call"
        => IF stack.frames = <<>>
           THEN /\ last'.ret = <<>>
                /\ UNCHANGED <<return_data, state_changes, logs>>
           ELSE /\ last'.ret # <<>>
                /\ return_data' = IF last'.arg.success
                                  THEN last'.arg.return_data ELSE <<>>]_vars

\* A nested call was closed with end_call(false, d), d not empty: the buffer
\* is empty and the outer frame is still open.
C13_Witness ==
    /\ last.op = "end_call"
    /\ ~last.arg.success
    /\ last.arg.return_data # <<>>
    /\ last.ret # <<>>
    /\ return_data = <<>>
    /\ Len(stack.frames) = 1

\* C14: rollback_to_depth(target) on a stack of depth d leaves depth
\* min(d, target), returns exactly max(0, d - target) frames, the last
\* pushed first, and leaves the frames below the target in place in their
\* order.
C14_RollbackToDepth ==
    [][last'.op = "rollback_to_depth"
        => LET n == Len(stack.frames)
               t == last'.arg
               k == IF n > t THEN n - t ELSE 0
           IN
           /\ depth(stack) = n
           /\ depth(stack') = IF n <= t THEN n ELSE t
           /\ Len(last'.ret) = k
           /\ \A j \in 1..k : last'.ret[j] = stack.frames[n - j + 1]
           /\ stack'.frames = Front(stack.frames, n - k)]_vars

\* rollback_to_depth(0) on a full stack returned every frame.
C14_Witness ==
    /\ last.op = "rollback_to_depth"
    /\ last.arg = 0
    /\ Len(last.ret) = MaxDepth
    /\ stack.frames = <<>>

\* C15: rollback_to_depth(d) called twice in a row returns the empty list
\* the second time and leaves the stack as the first call left it.
C15_RollbackIdempotent ==
    [][(last.op = "rollback_to_depth" /\ last'.op = "rollback_to_depth"
            /\ last'.arg = last.arg)
        => last'.ret = <<>> /\ stack' = stack]_vars

\* rollback_to_depth(d) popped two frames or more and was called again
\* with the same d.
C15_Witness ==
    /\ prev.op = "rollback_to_depth"
    /\ Len(prev.ret) >= 2
    /\ last.op = "rollback_to_depth"
    /\ last.arg = prev.arg
    /\ last.ret = <<>>

\* C16: check_permissions(kind) returns InvalidOpcode exactly when kind is
\* "modify_state" or "emit_log" and the top frame is read-only; it succeeds
\* otherwise, also with no frame open and for any other string, and it
\* never changes the manager.  A frame built by new_call is read-only
\* exactly when its call kind is StaticCall.
C16_ReadOnlyFrames ==
    \A i \in 1..Len(stack.frames) :
        stack.frames[i].read_only <=> stack.frames[i].call_type = "StaticCall"

C16_CheckStep ==
    last'.op = "check_permissions"
        => /\ last'.err \in {"Ok", "InvalidOpcode"}
           /\ last'.err = "InvalidOpcode"
                 <=> /\ last'.arg \in {"modify_state", "emit_log"}
                     /\ stack.frames # <<>>
                     /\ TopFrame(stack).read_only
           /\ UNCHANGED <<stack, return_data, state_changes, logs>>

C17_RecordStateChange ==
    [][last'.op = "record_state_change"
        => /\ UNCHANGED <<stack, logs, return_data>>
           /\ IF stack.frames = <<>>
              THEN state_changes' = state_changes
              ELSE LET d == TopFrame(stack).depth IN
                   /\ DOMAIN state_changes' = DOMAIN state_changes \cup {d}
                   /\ state_changes'[d] = Append(Bucket(state_changes, d), last'.arg)
                   /\ \A x \in DOMAIN state_changes \ {d} :
                         state_changes'[x] = state_changes[x]]_vars

\* The second change the top frame recorded went behind its first one, while
\* another bucket was in the map.
C17_Witness ==
    /\ last.op = "record_state_change"
    /\ stack.frames # <<>>
    /\ Len(Bucket(state_changes, TopFrame(stack).depth)) = 2
    /\ DOMAIN state_changes # {TopFrame(stack).depth}

\* C18: every transact, successful or not, returns a result whose gas_used
\* is tx.gas_limit less the gas the machine has left where execution
\* stopped, and 0 <= gas_used <= tx.gas_limit.
C18_SymmetricGas ==
    last.op = "transact"
        => /\ last.err = "Ok"
           /\ Len(last.ret) = 1
           /\ last.ret[1].success <=> fault = "Ok"
           /\ last.ret[1].gas_used = last.arg.gas_limit - machine.gas
           /\ last.ret[1].gas_used >= 0
           /\ last.ret[1].gas_used <= last.arg.gas_limit

\* A transaction failed after part of its gas was used.
C18_Witness ==
    /\ last.op = "transact"
    /\ last.ret # <<>>
    /\ ~last.ret[1].success
    /\ last.ret[1].gas_used > 0
    /\ last.ret[1].gas_used < last.arg.gas_limit
    /\ machine.gas = last.arg.gas_limit - last.ret[1].gas_used

\* C19: whenever execute_call or execute_create returns an error (OutOfGas,
\* OutOfMemory, DatabaseError), transact returns Ok with a result that has
\* success = false, empty return data and the gas used up to the fault:
\* nothing if the base price could not be paid, the base price otherwise.
C19_RootFailureReported ==
    (last.op = "transact" /\ fault # "Ok")
        => /\ fault \in {"OutOfGas", "OutOfMemory", "DatabaseError"}
           /\ last.err = "Ok"
           /\ Len(last.ret) = 1
           /\ ~last.ret[1].success
           /\ last.ret[1].return_data = <<>>
           /\ LET base == IF last.arg.to # <<>> THEN SPEC.GAS_CALL ELSE SPEC.GAS_CREATE IN
              last.ret[1].gas_used = IF last.arg.gas_limit < base THEN 0 ELSE base

\* A creation whose init code is over MAX_CODE_SIZE was reported as a failed
\* result that used the creation price.
C19_Witness ==
    /\ last.op = "transact"
    /\ fault = "OutOfMemory"
    /\ last.err = "Ok"
    /\ last.ret # <<>>
    /\ ~last.ret[1].success
    /\ last.ret[1].gas_used = SPEC.GAS_CREATE

\* The account at the address is absent or holds no code.
NoCode(db, address) ==
    \/ address \notin DOMAIN db.accounts
    \/ db.accounts[address].code_hash = H256_zero
    \/ db.accounts[address].code_hash \notin DOMAIN db.code
    \/ db.code[db.accounts[address].code_hash].bytes = <<>>

\* C20: in a call transaction the call price is debited before the backend
\* is consulted.  With tx.gas_limit below GAS_CALL the transaction fails
\* with gas_used = 0 and the backend is not read; whenever the backend was
\* read or failed, the price has been paid; a call to an account without
\* code succeeds with empty return data and gas_used = GAS_CALL.
C20_CallOrdering ==
    [][(last'.op = "transact" /\ last'.arg.to # <<>>)
        => LET tx == last'.arg
               result == last'.ret[1]
           IN
           /\ tx.gas_limit < SPEC.GAS_CALL
                 => /\ ~result.success
                    /\ result.gas_used = 0
                    /\ database' = database
                    /\ fault' = "OutOfGas"
           /\ (database' # database \/ fault' = "DatabaseError")
                 => /\ tx.gas_limit >= SPEC.GAS_CALL
                    /\ machine'.gas = tx.gas_limit - SPEC.GAS_CALL
           /\ (tx.gas_limit >= SPEC.GAS_CALL /\ ~database.unavailable
                  /\ NoCode(database, tx.to[1]))
                 => /\ result.success
                    /\ result.return_data = <<>>
                    /\ result.gas_used = SPEC.GAS_CALL]_vars

\* With the access log on, a call with one gas less than GAS_CALL to the
\* account that holds code failed and left the access log empty.
C20_Witness ==
    /\ last.op = "transact"
    /\ last.arg.to = <<Address_from(2)>>
    /\ last.arg.gas_limit = SPEC.GAS_CALL - 1
    /\ ~last.ret[1].success
    /\ last.ret[1].gas_used = 0
    /\ database.log_access
    /\ database.access_log = <<>>
    /\ ~database.unavailable

\* C21: a creation is charged in the order base price, size check, deposit:
\* gas_used is 0 when gas_limit < GAS_CREATE; it is GAS_CREATE, and the
\* transaction fails, when the init code is longer than MAX_CODE_SIZE or the
\* deposit of GAS_CODE_DEPOSIT per byte cannot be paid; on success it is
\* GAS_CREATE + len * GAS_CODE_DEPOSIT and the return data is the 20 bytes
\* of the new address.
C21_CreateGas ==
    (last.op = "transact" /\ last.arg.to = <<>>)
        => LET tx == last.arg
               result == last.ret[1]
               deposit == tx.data_len * SPEC.GAS_CODE_DEPOSIT
           IN
           IF tx.gas_limit < SPEC.GAS_CREATE
           THEN ~result.success /\ result.gas_used = 0 /\ fault = "OutOfGas"
           ELSE IF tx.data_len > SPEC.MAX_CODE_SIZE
           THEN ~result.success /\ result.gas_used = SPEC.GAS_CREATE
                   /\ fault = "OutOfMemory"
           ELSE IF tx.gas_limit - SPEC.GAS_CREATE < deposit
           THEN ~result.success /\ result.gas_used = SPEC.GAS_CREATE
                   /\ fault = "OutOfGas"
           ELSE /\ result.success
                /\ result.gas_used = SPEC.GAS_CREATE + deposit
                /\ Len(result.return_data) = 20
                /\ result.return_data = calculate_create_address(tx.caller, 1)

\* A creation paid the base price and failed one gas short of the deposit
\* for its init code.
C21_Witness ==
    /\ last.op = "transact"
    /\ last.arg.to = <<>>
    /\ last.arg.data_len = MaxDataLen
    /\ last.arg.gas_limit = SPEC.GAS_CREATE + (MaxDataLen * SPEC.GAS_CODE_DEPOSIT) - 1
    /\ fault = "OutOfGas"
    /\ last.ret[1].gas_used = SPEC.GAS_CREATE

\* C22: every transact, successful or failed, leaves the backend's
\* accounts, storage slots and code table exactly as they were before the
\* call.
C22_BackendUntouched ==
    [][last'.op = "transact"
        => /\ database'.accounts = database.accounts
           /\ database'.storage = database.storage
           /\ database'.code = database.code]_vars

\* A call to the contract account read the account and its code, returned
\* the contract's data, and accounts, storage and code are those the
\* backend was built with.
C22_Witness ==
    /\ last.op = "transact"
    /\ last.ret[1].success
    /\ last.ret[1].return_data = <<66, 0>>
    /\ Len(database.access_log) >= 3
    /\ database.accounts = Backend.accounts
    /\ database.storage = Backend.storage
    /\ database.storage # <<>>
    /\ database.code = Backend.code

\* The places of a change list that write the slot, and those that delete
\* the slot's account.
UpdatesOf(changes, address, index) ==
    {j \in 1..Len(changes) :
        /\ changes[j].kind = "UpdateStorage"
        /\ changes[j].address = address
        /\ changes[j].index = index}

DeletesOf(changes, address) ==
    {j \in 1..Len(changes) :
        changes[j].kind = "DeleteAccount" /\ changes[j].address = address}

Latest(S) == CHOOSE x \in S : \A y \in S : y <= x

Listed(db, address, index) ==
    \E p \in get_account_storage(db, address) : p[1] = index

\* C23 as stated: after commit a slot reads the value of the last
\* UpdateStorage of the slot in the list, or what it read before if the
\* list has none; a slot that so reads zero is not in the account's storage
\* listing.
C23_LastUpdateWins ==
    [][last'.op = "commit"
        => \A slot \in SlotInputs :
              LET u == UpdatesOf(last'.arg, slot[1], slot[2])
                  expected == IF u = {} THEN storage(database, slot[1], slot[2]).ret
                              ELSE last'.arg[Latest(u)].value
              IN  /\ storage(database', slot[1], slot[2]).ret = expected
                  /\ expected = 0 => ~Listed(database', slot[1], slot[2])]_vars

\* C23, amended: after commit a slot reads the value of the last
\* UpdateStorage of the slot in the list, unless a DeleteAccount of the
\* slot's address comes later in the list, in which case it reads zero; with
\* neither in the list it reads what it read before.  A slot that so reads
\* zero is not in the account's storage listing.
C23_CommitInListOrder ==
    [][last'.op = "commit"
        => \A slot \in SlotInputs :
              LET u == UpdatesOf(last'.arg, slot[1], slot[2])
                  d == DeletesOf(last'.arg, slot[1])
                  expected ==
                      IF u \cup d = {} THEN storage(database, slot[1], slot[2]).ret
                      ELSE IF Latest(u \cup d) \in d THEN 0
                      ELSE last'.arg[Latest(u)].value
              IN  /\ storage(database', slot[1], slot[2]).ret = expected
                  /\ expected = 0 => ~Listed(database', slot[1], slot[2])
                  /\ expected # 0 => <<slot[2], expected>>
                                        \in get_account_storage(database', slot[1])]_vars

\* A list that sets a slot and then deletes the slot's account was
\* committed: the slot reads zero and the account lists no storage.
C23_Witness ==
    /\ last.op = "commit"
    /\ last.arg = <<UpdateStorage(Address_from(2), 0, 7),
                    DeleteAccount(Address_from(2))>>
    /\ storage(database, Address_from(2), 0).ret = 0
    /\ get_account_storage(database, Address_from(2)) = {}

\* C24: the stack of a Machine is last-in first-out.  After k successful
\* pushes made on a stack (k within what the limit leaves), the pops that
\* follow return the pushed values in exactly the reverse order, and after
\* the k-th of these pops the stack is what it was before the first push.
\* At every point in between, the stack is the starting stack followed by
\* the pushed values not yet popped, in push order.
C24_LastInFirstOut ==
    LET k == Len(trail.pushed)
        j == Len(trail.popped)
    IN  /\ j <= k
        /\ \A i \in 1..j : trail.popped[i] = trail.pushed[k - i + 1]
        /\ machine.stack = trail.base \o SubSeq(trail.pushed, 1, k - j)

\* Two different values were pushed on a stack two short of the limit, which
\* filled it, and two pops have returned them, the later push first.
C24_Witness ==
    /\ Len(trail.base) = 1024 - 2
    /\ trail.pushed = <<1, 2>>
    /\ trail.popped = <<2, 1>>
    /\ machine.stack = trail.base
    /\ last.op = "pop" /\ last.err = "Ok"

\* C25: Machine::push fails with StackOverflow exactly when the stack
\* already holds STACK_LIMIT entries (the same number in every profile), and
\* then leaves the machine as it was; otherwise it succeeds.  The stack never
\* holds more than STACK_LIMIT entries.  Machine::pop on an empty stack fails
\* with StackUnderflow.
C25_StackLimit ==
    /\ [](\A profile \in Profiles : Len(machine.stack) <= profile.STACK_LIMIT)
    /\ [][\A profile \in Profiles :
            /\ last'.op = "push" =>
                  /\ last'.err \in {"Ok", "StackOverflow"}
                  /\ last'.err = "StackOverflow"
                        <=> Len(machine.stack) = profile.STACK_LIMIT
                  /\ last'.err = "StackOverflow" => machine' = machine
            /\ last'.op = "pop" /\ machine.stack = <<>> =>
                  last'.err = "StackUnderflow" /\ machine' = machine]_vars

\* A push on a stack of STACK_LIMIT entries has failed with StackOverflow.
C25_Witness ==
    /\ last.op = "push"
    /\ last.err = "StackOverflow"
    /\ Len(machine.stack) = Berlin.STACK_LIMIT

\* C28: Machine::use_gas(amount) succeeds exactly when amount is at most the
\* gas left, and then lowers the gas by exactly amount and changes nothing
\* else; otherwise it fails with OutOfGas and leaves the gas and the rest of
\* the machine as they were.
C28_UseGas ==
    [][last'.op = "use_gas" =>
          LET amount == last'.arg IN
          /\ last'.err = "Ok" <=> amount <= machine.gas
          /\ last'.err = "Ok" => machine' = [machine EXCEPT !.gas = @ - amount]
          /\ last'.err # "Ok" => last'.err = "OutOfGas" /\ machine' = machine]_vars

\* use_gas has failed on a machine that has gas, but less than was asked,
\* and whose stack is not empty.
C28_Witness ==
    /\ last.op = "use_gas"
    /\ last.err = "OutOfGas"
    /\ machine.gas > 0
    /\ last.arg > machine.gas
    /\ machine.stack # <<>>

\* The window of size bytes at offset reaches past the first len bytes
\* (offset + size > len, without forming the sum).
Exceeds(offset, size, len) == size > len \/ offset > len - size

ceil32(n) == ((n + 31) \div 32) * 32

Max2(a, b) == IF a >= b THEN a ELSE b

\* C26: a Machine::memory_write(offset, bytes) that returns leaves memory
\* with size max(old size, ceil32(offset + len(bytes))), the window
\* [offset, offset + len) equal to bytes, every other byte that existed
\* unchanged and every new byte outside the window zero.  The memory size
\* starts at 0, is always a multiple of 32, and no call on the Machine ever
\* makes it smaller.
C26_MemoryWrite ==
    /\ [](last.op = "new" => machine.memory = <<>>)
    /\ [](Len(machine.memory) % 32 = 0)
    /\ [][Len(machine'.memory) >= Len(machine.memory)]_vars
    /\ [][last'.op = "memory_write" /\ last'.err = "Ok" =>
            LET offset == last'.arg[1]
                bytes  == last'.arg[2]
                old    == machine.memory
                new    == machine'.memory
            IN  /\ Len(new) = Max2(Len(old), ceil32(offset + Len(bytes)))
                /\ \A i \in 1..Len(new) :
                      new[i] = IF offset < i /\ i <= offset + Len(bytes)
                               THEN bytes[i - offset]
                               ELSE IF i <= Len(old) THEN old[i] ELSE 0
                /\ machine' = [machine EXCEPT !.memory = new]]_vars

\* C27: Machine::memory_read(offset, len) fails with OutOfMemory whenever
\* offset + len exceeds the current memory size, and otherwise returns
\* exactly the bytes of the window [offset, offset + len); it never changes
\* the machine.
C27_MemoryRead ==
    [][last'.op = "memory_read" =>
          LET offset == last'.arg[1]
              len    == last'.arg[2]
          IN  /\ machine' = machine
              /\ Exceeds(offset, len, Len(machine.memory)) =>
                    last'.err = "OutOfMemory"
              /\ ~Exceeds(offset, len, Len(machine.memory)) =>
                    /\ last'.err = "Ok"
                    /\ last'.ret = SubSeq(machine.memory, offset + 1, offset + len)]_vars

\* The price list of memory, in exact arithmetic.
words(size) == BigDiv(BigAdd(size, Big(31)), 32)

cost(w) == BigAdd(BigMul(Big(3), w), BigDiv(BigMul(w, w), 512))

Price(oldSize, newSize) ==
    IF BigLeq(newSize, oldSize) THEN Big(0)
    ELSE BigSub(cost(words(newSize)), cost(words(oldSize)))

\* C29: for all old and new sizes, the gas the memory-expansion functions
\* return for growing memory from oldSize to newSize is
\* cost(ceil(newSize/32)) - cost(ceil(oldSize/32)), with
\* cost(w) = 3*w + floor(w*w/512), and 0 when newSize <= oldSize; it is the
\* difference of the two costs as numbers, never that of a smaller cost
\* less a larger one.
C29_ExpansionPrice ==
    last.op \in {"calculate_memory_expansion_gas", "calculate_memory_gas"} =>
        /\ last.err = "Ok"
        /\ last.ret = Price(last.arg[1], last.arg[2])
        /\ BigLeq(cost(words(last.arg[1])), cost(words(last.arg[2])))
              \/ last.ret = Big(0)

\* The gas the SimpleMemory's own function gives for growing from one size
\* to another at once.
Direct(oldSize, newSize) ==
    IF simple_memory.practice = 2
    THEN calculate_memory_gas(oldSize, newSize, overflow_checks)
    ELSE calculate_memory_expansion_gas(oldSize, newSize, overflow_checks)

\* C30: the expansion cost is path-independent and monotonic.  Every store
\* and expand_to returns its gas, the gas charged along any sequence of
\* expansions from a size a to a size c adds up to the gas of expanding a to
\* c at once, and of two targets the larger never costs less.
C30_PathIndependent ==
    /\ [](last.op \in {"store", "expand_to"} =>
            /\ last.err = "Ok"
            /\ charged.gas = Direct(charged.start, simple_memory.size).ret)
    /\ [][BigLeq(simple_memory.size, simple_memory'.size) =>
            BigLeq(Direct(charged.start, simple_memory.size).ret,
                   Direct(charged.start, simple_memory'.size).ret)]_vars

\* The instruction an interpreter inside run executes next.
Current(e) == e.instructions[e.pc + 1]

\* The interpreter is about to execute an instruction.
Executing(e) == e.status = "running" /\ e.pc < Len(e.instructions)

\* destination is the in-range position of a JumpDest.
MarkedPosition(e, destination) ==
    \E pos \in 0..(Len(e.instructions) - 1) :
        /\ Big(pos) = destination
        /\ e.instructions[pos + 1].op = "JumpDest"

\* The interpreter can pay the price of an instruction (free in the
\* interpreters without a gas limit).
Affords(e, price) ==
    e.kind \in {4, 5} => BigLeq(BigAdd(e.gas_used, Big(price)), e.gas_limit)

\* The interpreter is about to pop a destination and take the jump: a JUMP
\* with a destination on the stack, or a JUMPI with a destination above a
\* nonzero condition.
TakesJump(e) ==
    /\ Executing(e)
    /\ \/ Current(e).op = "Jump" /\ Len(e.stack) >= 1 /\ Affords(e, 8)
       \/ /\ Current(e).op = "JumpI" /\ Len(e.stack) >= 2 /\ Affords(e, 10)
          /\ Peek(e, 1) # Big(0)

\* The answers of the interpreter's validator for the positions in and
\* around the program and for a position beyond 32 bits.
ValidatorExact(e) ==
    \A destination \in {Big(pos) : pos \in 0..(Len(e.instructions) + 1)}
                       \cup {Pow2(40)} :
        (IF e.kind = 3
         THEN practice3_is_valid_destination(e.validator, destination)
         ELSE practice5_is_valid_destination(e.validator, destination))
        <=> MarkedPosition(e, destination)

\* C31: a JUMP, or a JUMPI with a nonzero condition, whose popped destination
\* is not the in-range position of a JumpDest fails with the invalid-jump
\* error and does not set pc to that destination; is_valid_destination(pc) is
\* true exactly for the in-range positions of JumpDest.
C31_JumpSafety ==
    /\ [](evm.kind \in {3, 5} => ValidatorExact(evm))
    /\ [][TakesJump(evm) /\ ~MarkedPosition(evm, Peek(evm, 0)) =>
            /\ evm'.status = "failed"
            /\ evm'.err = "Invalid jump destination"
            /\ evm'.pc = evm.pc]_vars

C31_Witness ==
    /\ evm.kind = 5
    /\ evm.err = "Invalid jump destination"
    /\ Current(evm).op = "JumpI"
    /\ evm.pc = 2
    /\ evm.instructions[1] = Instruction_Push(Big(2))
    /\ evm.instructions[2] = Instruction_Push(Big(0))
    /\ evm.stack = <<>>

\* The interpreter is about to execute a JUMPI whose condition is zero.
SkipsJump(e) ==
    /\ Executing(e)
    /\ Current(e).op = "JumpI" /\ Len(e.stack) >= 2 /\ Affords(e, 10)
    /\ Peek(e, 1) = Big(0)

\* C32: a JUMPI with a zero condition pops the destination (the top) and the
\* condition, takes no jump and advances pc by one; the destination is
\* discarded without validation, so the step succeeds even when the
\* destination is unmarked or out of range.
C32_JumpINotTaken ==
    [][SkipsJump(evm) =>
          /\ evm'.status \in {"running", "stopped"}
          /\ evm'.err = "Ok"
          /\ evm'.pc = evm.pc + 1
          /\ evm'.stack = SubSeq(evm.stack, 1, Len(evm.stack) - 2)]_vars

C32_Witness ==
    /\ evm.kind = 3
    /\ evm.instructions = <<Instruction_Push(Big(0)), Instruction_Push(Big(2)),
                            Instruction("JumpI")>>
    /\ evm.pc = 3
    /\ evm.stack = <<>>
    /\ evm.status = "running"

\* run has returned.
Returned(e) == e.status \in {"stopped", "failed"}

\* C33: running [Push(d), Jump] with d an unmarked destination fails with the
\* invalid-jump error, and the gas consumed at the failure is the price of
\* the push plus the price of the jump, 3 + 8 = 11.
C33_InvalidJumpGas ==
    /\ evm.kind \in {3, 5}
    /\ Len(evm.instructions) = 2
    /\ evm.instructions[1].op = "Push"
    /\ evm.instructions[2].op = "Jump"
    /\ ~MarkedPosition(evm, evm.instructions[1].value)
    /\ evm.kind = 5 => BigLeq(Big(11), evm.gas_limit)
    /\ evm.status # "running"
    => /\ evm.status = "failed"
       /\ evm.err = "Invalid jump destination"
       /\ evm.gas_used = Big(11)

\* The program is [Push(a), Push(b), Add, Stop].
AddsTwo(e) ==
    /\ Len(e.instructions) = 4
    /\ e.instructions[1].op = "Push"
    /\ e.instructions[2].op = "Push"
    /\ e.instructions[3].op = "Add"
    /\ e.instructions[4].op = "Stop"

\* C34: running [Push(a), Push(b), Add, Stop] to completion leaves a + b (in
\* 64-bit arithmetic) on top of the stack, 8 for a = 3 and b = 5, stops at the
\* Stop instruction and consumes two push prices plus one add price, 9 gas;
\* Stop costs nothing.
C34_Arithmetic ==
    /\ evm.kind \in {1, 5}
    /\ AddsTwo(evm)
    /\ evm.kind = 5 => BigLeq(Big(9), evm.gas_limit)
    => /\ evm.status \in {"running", "stopped"}
       /\ evm.status = "stopped" =>
             /\ evm.pc = 3
             /\ evm.stack = <<Low64(BigAdd(evm.instructions[1].value,
                                           evm.instructions[2].value))>>
             /\ evm.gas_used = Big(9)

\* The interpreter is about to execute an MLOAD with an offset on the stack.
Loads(e) ==
    /\ Executing(e)
    /\ Current(e).op = "MLoad" /\ Len(e.stack) >= 1 /\ Affords(e, 3)

\* C35: after an MSTORE of v at offset o, an MLOAD at o pushes v, until the
\* next MSTORE at o; an MLOAD at an offset that was never stored pushes 0 and
\* does not fail.
C35_RoundTrip ==
    [][evm.kind \in {2, 5} /\ Loads(evm) =>
          /\ evm'.status = "running"
          /\ Len(evm'.stack) = Len(evm.stack)
          /\ Peek(evm', 0) = HashMap_get(ledger.stored, Peek(evm, 0))]_vars

\* The price of growing memory for a 32-byte slot at the offset on top of
\* the stack.
SlotPrice(e) ==
    Price(e.memory.size, BigMul(words(BigAdd(Peek(e, 0), Big(32))), Big(32)))

\* The GasEVM is about to execute an MSTORE whose base price it can pay and
\* whose expansion price it cannot.
StoresBeyondGas(e) ==
    /\ e.kind = 4
    /\ Executing(e)
    /\ Current(e).op = "MStore" /\ Len(e.stack) >= 2 /\ Affords(e, 3)
    /\ ~BigLeq(BigAdd(BigAdd(e.gas_used, Big(3)), SlotPrice(e)), e.gas_limit)

\* C36: in GasEVM, an MSTORE whose memory-expansion cost cannot be paid from
\* the remaining gas fails with out-of-gas without committing the write: the
\* memory size and contents after the failed step are those before it.
C36_StoreOutOfGas ==
    [][StoresBeyondGas(evm) =>
          /\ evm'.status = "failed"
          /\ evm'.err = "Out of gas"
          /\ evm'.memory = evm.memory]_vars

\* C38: in GasEVM, after any sequence of successful MSTORE and MLOAD
\* instructions from empty memory, the memory-expansion gas charged so far is
\* memory_cost(memory size / 32): each word of growth is paid once, and an
\* instruction that does not grow memory is charged no expansion gas.
C38_ExpansionPaidOnce ==
    /\ [](evm.kind = 4 /\ evm.status \in {"running", "stopped"} =>
            ledger.expansion = cost(BigDiv(evm.memory.size, 32)))
    /\ [][/\ evm.kind = 4
          /\ evm'.status \in {"running", "stopped"}
          /\ evm'.memory.size = evm.memory.size
          => ledger'.expansion = ledger.expansion]_vars

\* C37: in every reachable state of GasEVM, CompleteEVM and CallFrame,
\* gas_used <= gas_limit (the remaining gas is never negative), gas_used never
\* decreases from one step to the next, and a consume_gas that fails leaves
\* gas_used unchanged (in an interpreter, at what the instruction's earlier
\* consume_gas of its base price of 3 made it).
C37_GasBound ==
    /\ [](/\ BigLeq(evm.gas_used, evm.gas_limit)
          /\ BigLeq(call_frame.gas_used, call_frame.gas_limit)
          /\ last.op = "remaining_gas" =>
                BigAdd(call_frame.gas_used, last.ret) = call_frame.gas_limit)
    /\ [][/\ BigLeq(evm.gas_used, evm'.gas_used)
          /\ BigLeq(call_frame.gas_used, call_frame'.gas_used)]_vars
    /\ [][/\ last'.op = "consume_gas" /\ last'.err # "Ok" =>
                call_frame'.gas_used = call_frame.gas_used
          /\ evm'.err = "Out of gas" =>
                evm'.gas_used \in {evm.gas_used, BigAdd(evm.gas_used, Big(3))}]_vars

\* C40: CallFrame::consume_gas(gas) returns OutOfGas for every amount larger
\* than the frame's remaining gas, gas_limit - gas_used, the amounts for which
\* gas_used + gas exceeds the 64-bit unsigned range included; it never accepts
\* such a debit through wrap-around.
C40_NoWrapAround ==
    [][/\ last'.op = "consume_gas"
       /\ ~BigLeq(BigAdd(call_frame.gas_used, last'.arg), call_frame.gas_limit)
       => /\ last'.err = "OutOfGas"
          /\ call_frame' = call_frame]_vars

(***************************************************************************)
(* C39: termination under metering.  Every run of CompleteEVM::run         *)
(* eventually stops, at Stop, past the last instruction or with an error,  *)
(* because every executed instruction other than Stop has consumed at      *)
(* least 1 gas: step_count never exceeds gas_used + 1, and gas_used never  *)
(* exceeds the gas limit.  JumpEVM::run stops after at most 50 steps.      *)
(***************************************************************************)
Stopped == evm.status \in {"stopped", "failed"}

C39_Termination ==
    /\ <>Stopped
    /\ [](evm.kind = 3 => evm.steps <= 50)
    /\ [](evm.kind = 5 =>
            /\ BigLeq(evm.step_count, BigAdd(evm.gas_used, Big(1)))
            /\ BigLeq(evm.gas_used, evm.gas_limit))

=============================================================================
